---- MODULE Spec2Model ----
(***************************************************************************)
(* Model of the lego-can firmware core:                                    *)
(*   - the Telemetry Buffer (telemetry/telemetry_source.rs) with its frame *)
(*     decoder (telemetry/sample.rs),                                      *)
(*   - the H-bridge motor driver (motor_driver.rs),                        *)
(*   - the command watchdog of the control loop (main.rs).                 *)
(***************************************************************************)
EXTENDS Integers, Sequences, FiniteSets, TLC

VARIABLES
    \* ---- TelemetrySource (one channel) ----
    status,        \* TelemetrySource.status (AtomicU32)
    data,          \* TelemetrySource.data : [u8; FRAME_LEN]
    write_index,   \* TelemetrySource.write_index
    wpc,           \* position of the interrupt handler inside write_byte
    wbyte,         \* argument of the write_byte call in progress
    wresult,       \* value returned by the last write_byte call
    wentry,        \* cursor and state that the last write_byte call found
    rpc,           \* position of the poll loop inside try_read_sample
    sample,        \* local `sample` of try_read_sample
    result,        \* value returned by the last try_read_sample call
    nwrites,       \* number of write_byte calls made so far
    burst,         \* bytes passed to write_byte since the last call that began in Idle
    callsSince,    \* try_read_sample calls begun since burst became a whole frame
    okrun,         \* bytes of the write_byte calls that returned Ok in a row, at most
                   \* FRAME_LEN of them: empty after a call that returned Err, begun
                   \* again after FRAME_LEN
    okframe,       \* the last okrun of FRAME_LEN bytes, << >> before the first
    frame_returns, \* try_read_sample calls that returned a Sample since the state
                   \* last became DoneWriting
    rentry,        \* state that the last try_read_sample call found, -1 before any
    line,          \* the bytes the motor sends, in order; << >> when the line may
                   \* deliver any byte
    sinceRead,     \* place in a run of try_read_sample calls with no write_byte call
                   \* in between: 0 after a call that returned a Sample, 1 and more
                   \* for the calls begun after it, -1 outside such a run
    \* ---- Motors (three FullBridge of two HalfBridge each) ----
    legs,          \* per channel and leg: low FET gate, PWM pin mode, CCR register
    enable,        \* level of the ENABLE_MOTOR pin
    ops,           \* register writes and returns still to run in the call in progress
    returned,      \* the call that returned in the last step
    halted,        \* the program panicked (panic_halt)
    overflow_checks, \* build profile: arithmetic overflow panics
    set_calls,     \* <<channel, value>> of the FullBridge::pwm calls that returned
                   \* since set_raw_pwm was last called
    \* ---- control loop of main ----
    lpc,           \* position of main in its loop
    watchdog_motor_cmd, \* usize counter, as <<high half, low half>> of 16 bits each
    motor_timed_out,    \* local of the loop pass
    tim1_uif,      \* update interrupt flag of TIM1, set by the timer
    silent,        \* ticks counted since the last accepted command, up to the threshold
    ri,            \* index i of the loop over TELEMETRY_SOURCE
    usb_polled,    \* what usb_dev.poll returned in this pass
    usb_read,      \* what usb_serial.read returned last: a length, or ReadErr
    usb_rx_buf,    \* usb_rx_buf[0..6]
    usb_tx_buf,    \* usb_tx_buf: [u8; 24]
    write_offset,  \* local of the transmit loop
    write_blocked, \* the last usb_serial.write took no byte
    sent,          \* bytes usb_serial.write took for the report under way
    report,        \* the last report sent whole, << >> before the first
    fresh,         \* channels whose try_read_sample returned a Sample since the
                   \* validity bytes were last cleared
    tried,         \* channels whose try_read_sample was called in this pass
    write_calls,   \* usb_serial.write calls made for the report under way, modulo 2
    commanded,     \* a host command was accepted since startup
    pass_cmd,      \* this pass of the loop accepted a host command
    pass_reports,  \* reports handed over whole in this pass of the loop (at most 2 counted)
    last_sample,   \* per channel, the Sample try_read_sample returned last to the loop
    \* ---- Sample and DataFrame on their own (sample.rs) ----
    cpc,           \* "sample": a Sample to send, "frame": its frame, "decoded"
    csample,       \* the Sample the motor sends
    cframe,        \* the DataFrame on the wire
    cflips,        \* number of bit errors put into cframe
    cdecoded,      \* what Sample::from_dataframe returned for cframe
    \* ---- initialization(bus): the handshake on one uart::Bus ----
    hpc,           \* position of the program inside initialization
    htoggles,      \* pulses made on the TX pin
    hidx,          \* index of the next byte of the sequence being written
    attempts,      \* read_byte calls made by the loop that waits for POLL
    ack,           \* local `ack`
    hret,          \* value returned by initialization: "true", "false", "none" before
    rx_en,         \* receiver of the USART enabled
    tx_en,         \* transmitter of the USART enabled
    txe,           \* TXE flag: the transmit data register is empty
    rxdr,          \* receive data register: a byte, or -1 when RXNE is clear
    hsent,         \* bytes written to the transmit data register, in order
    flushed,       \* the byte the flush read took, -1 if none
    markerTaken,   \* a read_byte call of the waiting loop took POLL from the register
    \* ---- main: bring-up of the three telemetry channels, and TIM3 ----
    bpc,           \* position of main in one pass of `for i in 0..3`, "loop" after it
    bi,            \* loop variable i
    ENABLED_FLAGS,       \* static ENABLED: [AtomicBool; 3]
    lego_poller,   \* lego_poller[i].is_some()
    rxneie,        \* RXNEIE bit of UART[i]: receive interrupt enabled
    nvic_unmasked, \* the interrupt of UART[i] is unmasked in the NVIC
    enable_lego,   \* level of pin ENABLE_LEGO[i] (low: motor powered)
    POLL_COUNTER,  \* static POLL_COUNTER: AtomicU8
    last_polled,   \* channels TIM3 wrote POLL to when it last triggered a poll
    hs_result,     \* per channel, what its call of initialization returned
    hs_calls,      \* per channel, number of calls of initialization made
    rx_writes,     \* per channel, write_byte calls its USART handler has made on
                   \* TELEMETRY_SOURCE[i], counted up to FRAME_LEN
    since_poll,    \* TIM3 interrupts since the last one that wrote POLL
    poll_gap       \* TIM3 interrupts from the write of POLL before the last one
                   \* (from startup for the first) to the last one, 0 before any

tvars == <<status, data, write_index, wpc, wbyte, wresult, wentry, rpc, sample, result,
           nwrites, burst, callsSince, sinceRead, okrun, okframe, frame_returns, rentry,
           line>>

\* the history kept of the write_byte calls
wghosts == <<okrun, okframe>>

mvars == <<legs, enable, ops, returned, halted, overflow_checks, set_calls>>

\* the history kept of the loop
lghosts == <<commanded, pass_cmd, pass_reports, last_sample>>

\* the part of the loop state that deals with the host
usbvars == <<ri, usb_polled, usb_read, usb_rx_buf, usb_tx_buf, write_offset,
             write_blocked, sent, report, fresh, tried, write_calls, lghosts>>

lvars == <<lpc, watchdog_motor_cmd, motor_timed_out, tim1_uif, silent, usbvars>>

cvars == <<cpc, csample, cframe, cflips, cdecoded>>

hvars == <<hpc, htoggles, hidx, attempts, ack, hret, rx_en, tx_en, txe, rxdr, hsent,
           flushed, markerTaken>>

bvars == <<bpc, bi, ENABLED_FLAGS, lego_poller, rxneie, nvic_unmasked, enable_lego,
           POLL_COUNTER, last_polled, hs_result, hs_calls, rx_writes, since_poll,
           poll_gap>>

vars == <<tvars, mvars, lvars, cvars, hvars, bvars>>

\* what the actions of the Telemetry Buffer leave alone
besidesTelemetry == <<mvars, lvars, cvars, hvars, bvars>>

\* what the actions of the motor driver and of the control loop leave alone
besidesDrive == <<tvars, cvars, hvars, bvars>>

\* what the actions on a Sample and its DataFrame leave alone
besidesCodec == <<tvars, mvars, lvars, hvars, bvars>>

\* what the actions of the handshake leave alone
besidesHandshake == <<tvars, mvars, lvars, cvars, bvars>>

\* what the actions of the bring-up and of TIM3 leave alone
besidesBringUp == <<tvars, mvars, lvars, cvars, hvars>>

----------------------------------------------------------------------------
(* Program constants of telemetry_source.rs *)

FRAME_LEN == 10
START == 216
IDLE == 0
WRITING == 1
DONEWRITING == 2
READING == 3

(* Bounds of the model *)

\* Number of write_byte calls explored.
MaxWrites == 12

\* Byte values the serial link delivers: the start marker 0xD8 and 0x27, the
\* checksum of a frame whose XOR is 0xD8. Frames over these two values have
\* good and bad checksums.
ByteValues == {START, 39}

----------------------------------------------------------------------------
(* u8 arithmetic *)

RECURSIVE XorBits(_, _, _)
XorBits(a, b, n) ==
    IF n = 0 THEN 0
    ELSE ((a + b) % 2) + 2 * XorBits(a \div 2, b \div 2, n - 1)

\* a ^ b on u8 (the operands are evaluated once, then combined bit by bit)
Xor8(a, b) == CHOOSE r \in {XorBits(x, y, 8) : x \in {a}, y \in {b}} : TRUE

\* !a on u8
Not8(a) == 255 - a

\* two's complement reading of an unsigned value of `bits` bits
Signed(u, bits) == IF u >= 2 ^ (bits - 1) THEN u - 2 ^ bits ELSE u

----------------------------------------------------------------------------
(* sample.rs *)

NoSample == [speed |-> 0, angle |-> 0, position |-> 0]

RECURSIVE XorUpTo(_, _)
\* XOR of buffer[0..=i]
XorUpTo(buffer, i) ==
    IF i = 0 THEN buffer[0] ELSE Xor8(XorUpTo(buffer, i - 1), buffer[i])

\* a check that leaves the first byte out of the XOR
checksum_checker_from1(buffer) ==
    buffer[FRAME_LEN - 1] = Not8(Xor8(XorUpTo(buffer, FRAME_LEN - 2), buffer[0]))

checksum_checker(buffer) ==
    buffer[FRAME_LEN - 1] = Not8(XorUpTo(buffer, FRAME_LEN - 2))

\* a parser that reads the position low byte first
from_le_position(frame) ==
    [speed    |-> Signed(frame[1], 8),
     angle    |-> ((Signed(frame[2], 8) * 256 + frame[3]) * 256 + frame[4]) * 256 + frame[5],
     position |-> Signed(frame[7] * 256 + frame[6], 16)]

\* bytes is the slice &frame[1..]: bytes[0] of the source is frame[1]
from_be_bytes(frame) ==
    [speed    |-> Signed(frame[1], 8),
     \* i32::from_be_bytes: the sign is carried by the first byte (all
     \* intermediate values stay within 32 bits)
     angle    |-> ((Signed(frame[2], 8) * 256 + frame[3]) * 256 + frame[4]) * 256 + frame[5],
     position |-> Signed(frame[6] * 256 + frame[7], 16)]

from_dataframe(frame) ==
    IF checksum_checker(frame)
    THEN [ok |-> TRUE, sample |-> from_be_bytes(frame)]
    ELSE [ok |-> FALSE, sample |-> NoSample]

I32_MAX == 2147483647
I32_MIN == -I32_MAX - 1

\* byte k (0 = least significant) of the two's complement form of v
ByteOf(v, k) == (v \div (256 ^ k)) % 256

\* Sample::write_be_bytes: the seven bytes written, bytes[0] first
write_be_bytes(s) ==
    [j \in 0 .. 6 |->
        CASE j = 0 -> ByteOf(s.speed, 0)                 \* self.speed.to_be_bytes()
          [] j \in 1 .. 4 -> ByteOf(s.angle, 4 - j)      \* self.angle.to_be_bytes()
          [] OTHER -> ByteOf(s.position, 6 - j)]         \* self.position.to_be_bytes()

----------------------------------------------------------------------------
(* Results of the two calls *)

ROk == [kind |-> "Ok", sample |-> NoSample]        \* write_byte: Ok(())
RErr == [kind |-> "Err", sample |-> NoSample]      \* Err(())
RNone == [kind |-> "None", sample |-> NoSample]    \* try_read_sample: Ok(None)
RSome(s) == [kind |-> "Some", sample |-> s]        \* try_read_sample: Ok(Some(s))
RPending == [kind |-> "Pending", sample |-> NoSample] \* call in progress / none yet

----------------------------------------------------------------------------
(* TelemetrySource::new *)

\* the buffer as new, with the bytes l to come
TelemetryNew(l) ==
    /\ status = IDLE
    /\ data = [i \in 0 .. FRAME_LEN - 1 |-> 0]
    /\ write_index = 0
    /\ wpc = "idle"
    /\ wbyte = 0
    /\ wresult = RPending
    /\ wentry = [cursor |-> 0, status |-> IDLE]
    /\ rpc = "idle"
    /\ sample = NoSample
    /\ result = RPending
    /\ nwrites = 0
    /\ burst = <<>>
    /\ callsSince = 0
    /\ sinceRead = -1
    /\ okrun = << >>
    /\ okframe = << >>
    /\ frame_returns = 0
    /\ rentry = -1
    /\ line = l

InitTelemetry == TelemetryNew(<< >>)

----------------------------------------------------------------------------
(* TelemetrySource::write_byte, run by the USART receive interrupt.  The   *)
(* handler runs to completion before the poll loop continues.              *)

\* The bytes of the calls made in a row since the last call that found Idle;
\* a whole frame stays until the next call that finds Idle.
BurstAfter(b) ==
    IF status = IDLE THEN <<b>>
    ELSE IF Len(burst) \in 1 .. FRAME_LEN - 1 THEN Append(burst, b)
    ELSE burst

\* A guard that counts only DONEWRITING as an unread frame.
OverrunOnlyDone(st) == st = DONEWRITING

\* A guard that never reports an unread frame.
OverrunIgnored(st) == FALSE

\* if status != WRITING, for the status the failed CAS returned: it was
\* DONEWRITING or READING.
Overrun(st) == st # IDLE /\ st # WRITING

\* write_byte calls explored: the bytes of the line, or MaxWrites calls with
\* any bytes
WriteBudget == IF line = << >> THEN MaxWrites ELSE Len(line)

\* okrun after a call with byte wbyte that returned Ok (ok) or Err
OkRunAfter(ok) ==
    IF ~ok THEN << >>
    ELSE IF Len(okrun) = FRAME_LEN THEN <<wbyte>>
    ELSE Append(okrun, wbyte)

\* self.status.compare_exchange(IDLE, WRITING, ..) and the branch on its result
WriteByteCas(b) ==
    /\ wpc = "idle"
    /\ nwrites < WriteBudget
    /\ nwrites' = nwrites + 1
    /\ burst' = BurstAfter(b)
    /\ callsSince' = IF Len(burst') = FRAME_LEN /\ Len(burst) = FRAME_LEN
                     THEN callsSince ELSE 0
    /\ sinceRead' = -1
    /\ wentry' = [cursor |-> write_index, status |-> status]
    /\ wbyte' = b
    /\ wresult' = RPending
    /\ status' = IF status = IDLE THEN WRITING ELSE status
    /\ wpc' = IF Overrun(status) THEN "overrun" ELSE "store"
    /\ UNCHANGED <<data, write_index, rpc, sample, result>>
    /\ UNCHANGED <<wghosts, frame_returns, rentry, line, besidesTelemetry>>

\* self.write_index = 0; return Err(());
WriteByteOverrun ==
    /\ wpc = "overrun"
    /\ write_index' = 0
    /\ wresult' = RErr
    /\ wpc' = "idle"
    /\ UNCHANGED <<status, data, wbyte, rpc, sample, result, nwrites, burst, callsSince,
                   sinceRead>>
    /\ okrun' = << >>
    /\ UNCHANGED <<wentry, okframe, frame_returns, rentry, line, besidesTelemetry>>

\* a writer without the start check
WriteByteStoreAnyStart ==
    /\ wpc = "store"
    /\ LET i == write_index
           next == (i + 1) % FRAME_LEN
       IN  /\ data' = [data EXCEPT ![i] = wbyte]
           /\ write_index' = next
           /\ status' = IF next = 0 THEN DONEWRITING ELSE status
           /\ wresult' = ROk
    /\ wpc' = "idle"
    /\ UNCHANGED <<wbyte, rpc, sample, result, nwrites, burst, callsSince, sinceRead>>
    /\ okrun' = OkRunAfter(wresult' = ROk)
    /\ okframe' = IF Len(okrun') = FRAME_LEN THEN okrun' ELSE okframe
    /\ frame_returns' = IF status' = DONEWRITING THEN 0 ELSE frame_returns
    /\ UNCHANGED <<wentry, rentry, line, besidesTelemetry>>

\* a writer that takes a frame for whole after nine bytes
WriteByteStoreShortFrame ==
    /\ wpc = "store"
    /\ LET i == write_index
           start_failed == (i = 0) /\ (wbyte # START)
           next == (i + 1) % FRAME_LEN
       IN  /\ data' = [data EXCEPT ![i] = wbyte]
           /\ IF start_failed
              THEN /\ write_index' = 0
                   /\ status' = IDLE
                   /\ wresult' = RErr
              ELSE /\ write_index' = next
                   /\ status' = IF next = FRAME_LEN - 1 THEN DONEWRITING ELSE status
                   /\ wresult' = ROk
    /\ wpc' = "idle"
    /\ UNCHANGED <<wbyte, rpc, sample, result, nwrites, burst, callsSince, sinceRead>>
    /\ okrun' = OkRunAfter(wresult' = ROk)
    /\ okframe' = IF Len(okrun') = FRAME_LEN THEN okrun' ELSE okframe
    /\ frame_returns' = IF status' = DONEWRITING THEN 0 ELSE frame_returns
    /\ UNCHANGED <<wentry, rentry, line, besidesTelemetry>>

\* store of the byte, start check, index update, publication of DONEWRITING
WriteByteStore ==
    /\ wpc = "store"
    /\ LET i == write_index
           start_failed == (i = 0) /\ (wbyte # START)
           next == (i + 1) % FRAME_LEN
       IN  /\ data' = [data EXCEPT ![i] = wbyte]
           /\ IF start_failed
              THEN /\ write_index' = 0
                   /\ status' = IDLE
                   /\ wresult' = RErr
              ELSE /\ write_index' = next
                   /\ status' = IF next = 0 THEN DONEWRITING ELSE status
                   /\ wresult' = ROk
    /\ wpc' = "idle"
    /\ UNCHANGED <<wbyte, rpc, sample, result, nwrites, burst, callsSince, sinceRead>>
    /\ okrun' = OkRunAfter(wresult' = ROk)
    /\ okframe' = IF Len(okrun') = FRAME_LEN THEN okrun' ELSE okframe
    /\ frame_returns' = IF status' = DONEWRITING THEN 0 ELSE frame_returns
    /\ UNCHANGED <<wentry, rentry, line, besidesTelemetry>>

----------------------------------------------------------------------------
(* TelemetrySource::try_read_sample, run by the poll loop; the interrupt   *)
(* handler may run between any two of its steps.                           *)

\* a reader that frees a buffer it finds Writing
TryReadCasFreesWriting ==
    /\ rpc = "idle"
    /\ wpc = "idle"
    /\ callsSince' = IF Len(burst) = FRAME_LEN /\ callsSince < 2
                     THEN callsSince + 1 ELSE callsSince
    /\ sinceRead' = IF sinceRead \in 0 .. 1 THEN sinceRead + 1 ELSE sinceRead
    /\ IF status = DONEWRITING
       THEN /\ status' = READING
            /\ rpc' = "decode"
            /\ result' = RPending
       ELSE IF status = READING
       THEN /\ rpc' = "reset"
            /\ result' = RPending
            /\ UNCHANGED status
       ELSE /\ result' = RNone
            /\ status' = IDLE
            /\ UNCHANGED rpc
    /\ UNCHANGED <<data, write_index, wpc, wbyte, wresult, sample, nwrites, burst>>
    /\ rentry' = status
    /\ UNCHANGED <<wentry, wghosts, frame_returns, line, besidesTelemetry>>

\* compare_exchange(DONEWRITING, READING) and the branch taken
TryReadCas ==
    /\ rpc = "idle"
    /\ wpc = "idle"
    /\ callsSince' = IF Len(burst) = FRAME_LEN /\ callsSince < 2
                     THEN callsSince + 1 ELSE callsSince
    /\ sinceRead' = IF sinceRead \in 0 .. 1 THEN sinceRead + 1 ELSE sinceRead
    /\ IF status = DONEWRITING
       THEN /\ status' = READING
            /\ rpc' = "decode"
            /\ result' = RPending
       ELSE IF status = READING
       THEN /\ rpc' = "reset"
            /\ result' = RPending
            /\ UNCHANGED status
       ELSE /\ result' = RNone
            /\ UNCHANGED <<status, rpc>>
    /\ UNCHANGED <<data, write_index, wpc, wbyte, wresult, sample, nwrites, burst>>
    /\ rentry' = status
    /\ UNCHANGED <<wentry, wghosts, frame_returns, line, besidesTelemetry>>

\* let sample = Sample::from_dataframe(&self.data)?;
TryReadDecode ==
    /\ rpc = "decode"
    /\ wpc = "idle"
    /\ LET r == from_dataframe(data)
       IN  IF r.ok
           THEN /\ sample' = r.sample
                /\ rpc' = "publish"
                /\ UNCHANGED result
           ELSE /\ result' = RErr
                /\ rpc' = "idle"
                /\ UNCHANGED sample
    /\ UNCHANGED <<status, data, write_index, wpc, wbyte, wresult, nwrites, burst,
                   callsSince, sinceRead>>
    /\ UNCHANGED <<wentry, wghosts, frame_returns, rentry, line, besidesTelemetry>>

\* a reader that hands the frame back as unread after returning its Sample
TryReadPublishUnread ==
    /\ rpc = "publish"
    /\ wpc = "idle"
    /\ status' = DONEWRITING
    /\ result' = RSome(sample)
    /\ sample' = NoSample
    /\ rpc' = "idle"
    /\ sinceRead' = IF sinceRead >= 1 THEN sinceRead ELSE 0
    /\ UNCHANGED <<data, write_index, wpc, wbyte, wresult, nwrites, burst, callsSince>>
    /\ frame_returns' = IF frame_returns < 2 THEN frame_returns + 1 ELSE frame_returns
    /\ UNCHANGED <<wentry, wghosts, rentry, line, besidesTelemetry>>

\* self.status.store(IDLE); Ok(Some(sample))
TryReadPublish ==
    /\ rpc = "publish"
    /\ wpc = "idle"
    /\ status' = IDLE
    /\ result' = RSome(sample)
    /\ sample' = NoSample
    /\ rpc' = "idle"
    /\ sinceRead' = IF sinceRead >= 1 THEN sinceRead ELSE 0
    /\ UNCHANGED <<data, write_index, wpc, wbyte, wresult, nwrites, burst, callsSince>>
    /\ frame_returns' = IF frame_returns < 2 THEN frame_returns + 1 ELSE frame_returns
    /\ UNCHANGED <<wentry, wghosts, rentry, line, besidesTelemetry>>

\* a reader that reports a buffer found Reading and leaves it so
TryReadResetKeeps ==
    /\ rpc = "reset"
    /\ wpc = "idle"
    /\ result' = RErr
    /\ rpc' = "idle"
    /\ UNCHANGED <<status, data, write_index, wpc, wbyte, wresult, sample, nwrites, burst,
                   callsSince, sinceRead>>
    /\ UNCHANGED <<wentry, wghosts, frame_returns, rentry, line, besidesTelemetry>>

\* Err(READING) => { self.status.store(IDLE); Err(()) }
TryReadReset ==
    /\ rpc = "reset"
    /\ wpc = "idle"
    /\ status' = IDLE
    /\ result' = RErr
    /\ rpc' = "idle"
    /\ UNCHANGED <<data, write_index, wpc, wbyte, wresult, sample, nwrites, burst,
                   callsSince, sinceRead>>
    /\ UNCHANGED <<wentry, wghosts, frame_returns, rentry, line, besidesTelemetry>>

----------------------------------------------------------------------------
(* motor_driver.rs: the hardware the driver writes *)

Channels == 0 .. 2
Legs == 0 .. 1

\* A leg after reset: low FET gate low, PWM pin not in alternate function,
\* compare register 0.
ResetLeg == [gnd |-> FALSE, af |-> FALSE, ccr |-> 0]

\* Low FET on, high FET off.
IsGround(leg) == leg.gnd /\ ~leg.af

\* Both FETs off.
IsOff(leg) == ~leg.gnd /\ ~leg.af

\* The high FET is driven by the PWM signal.
InPwm(leg) == leg.af

\* Low FET off, high FET driven by PWM with compare value d.
IsPwm(leg, d) == ~leg.gnd /\ leg.af /\ leg.ccr = d

NoCall == [call |-> "none", ch |-> 0, arg |-> 0]

\* one register write of HalfBridge method fn on leg l of channel c
W(fn, c, l, op, val) == [fn |-> fn, op |-> op, ch |-> c, leg |-> l, val |-> val]

\* the return of call `name`
Ret(name, c, arg) == [fn |-> name, op |-> "ret", ch |-> c, leg |-> 0, val |-> arg]

\* the panic of an overflow check
Panic == [fn |-> "abs", op |-> "panic", ch |-> 0, leg |-> 0, val |-> 0]

----------------------------------------------------------------------------
(* HalfBridge *)

\* gpio::write(gnd, false); pwm.configure(.., GPIO_MODE.as_af());
\* gpio::configure(pwm.gpio(), GPIO_MODE.into())
HalfBridge_new(c, l) ==
    << W("new", c, l, "gnd", 0), W("new", c, l, "af", 1), W("new", c, l, "af", 0) >>

HalfBridge_off(c, l) ==
    << W("off", c, l, "gnd", 0), W("off", c, l, "af", 0) >>

\* turns the low FET on before it disconnects the high FET
HalfBridge_ground_low_first(c, l) ==
    << W("ground", c, l, "gnd", 1), W("ground", c, l, "af", 0) >>

HalfBridge_ground(c, l) ==
    << W("ground", c, l, "af", 0), W("ground", c, l, "gnd", 1) >>

HalfBridge_pwm(c, l, pwm) ==
    << W("pwm", c, l, "gnd", 0), W("pwm", c, l, "af", 1), W("pwm", c, l, "ccr", pwm) >>

----------------------------------------------------------------------------
(* FullBridge *)

I16_MIN == -32768

\* i16::abs without overflow check: i16::MIN stays i16::MIN
AbsI16(v) == IF v = I16_MIN THEN I16_MIN ELSE IF v < 0 THEN -v ELSE v

\* i16 as u16
AsU16(v) == IF v < 0 THEN v + 65536 ELSE v

FullBridge_off(c) ==
    HalfBridge_off(c, 0) \o HalfBridge_off(c, 1) \o << Ret("FullBridge.off", c, 0) >>

\* grounds the first leg only
FullBridge_off_ground_first(c) ==
    HalfBridge_ground(c, 0) \o << Ret("FullBridge.off_ground", c, 0) >>

FullBridge_off_ground(c) ==
    HalfBridge_ground(c, 0) \o HalfBridge_ground(c, 1)
        \o << Ret("FullBridge.off_ground", c, 0) >>

\* energizes the gaining leg before grounding the losing leg
FullBridge_pwm_swapped(c, pwm, checks) ==
    LET ccr == AsU16(AbsI16(pwm))
        pwm_leg == IF pwm > 0 THEN 0 ELSE 1
    IN  IF ccr = 0 THEN FullBridge_off_ground(c) \o << Ret("FullBridge.pwm", c, pwm) >>
        ELSE HalfBridge_pwm(c, pwm_leg, ccr) \o HalfBridge_ground(c, 1 - pwm_leg)
                 \o << Ret("FullBridge.pwm", c, pwm) >>

\* turns the losing leg off instead of grounding it
FullBridge_pwm_floating(c, pwm, checks) ==
    LET ccr == AsU16(AbsI16(pwm))
        pwm_leg == IF pwm > 0 THEN 0 ELSE 1
    IN  IF ccr = 0 THEN FullBridge_off_ground(c) \o << Ret("FullBridge.pwm", c, pwm) >>
        ELSE HalfBridge_off(c, 1 - pwm_leg) \o HalfBridge_pwm(c, pwm_leg, ccr)
                 \o << Ret("FullBridge.pwm", c, pwm) >>

\* drives the same leg whatever the sign
FullBridge_pwm_unsigned(c, pwm, checks) ==
    LET ccr == AsU16(AbsI16(pwm))
    IN  IF ccr = 0 THEN FullBridge_off_ground(c) \o << Ret("FullBridge.pwm", c, pwm) >>
        ELSE HalfBridge_ground(c, 1) \o HalfBridge_pwm(c, 0, ccr)
                 \o << Ret("FullBridge.pwm", c, pwm) >>

\* FullBridge::pwm; pwm.abs() panics on i16::MIN when overflow is checked
FullBridge_pwm(c, pwm, checks) ==
    IF pwm = I16_MIN /\ checks THEN << Panic >>
    ELSE
    LET ccr == AsU16(AbsI16(pwm))
        direction == pwm > 0
        pwm_leg == IF direction THEN 0 ELSE 1
        gnd_leg == IF direction THEN 1 ELSE 0
    IN  IF ccr = 0 THEN FullBridge_off_ground(c) \o << Ret("FullBridge.pwm", c, pwm) >>
        ELSE HalfBridge_ground(c, gnd_leg) \o HalfBridge_pwm(c, pwm_leg, ccr)
                 \o << Ret("FullBridge.pwm", c, pwm) >>

----------------------------------------------------------------------------
(* Motors *)

\* a constructor that leaves the legs as HalfBridge::new made them
Motors_new_not_grounded ==
    << W("Motors.new", 0, 0, "enable", 0) >>
    \o HalfBridge_new(0, 0) \o HalfBridge_new(0, 1)
    \o HalfBridge_new(1, 0) \o HalfBridge_new(1, 1)
    \o HalfBridge_new(2, 0) \o HalfBridge_new(2, 1)
    \o << Ret("Motors.new", 0, 0) >>

\* gpio::write(ENABLE_MOTOR, false), the six HalfBridge::new, out.off_ground()
Motors_new ==
    << W("Motors.new", 0, 0, "enable", 0) >>
    \o HalfBridge_new(0, 0) \o HalfBridge_new(0, 1)
    \o HalfBridge_new(1, 0) \o HalfBridge_new(1, 1)
    \o HalfBridge_new(2, 0) \o HalfBridge_new(2, 1)
    \o FullBridge_off_ground(0) \o FullBridge_off_ground(1) \o FullBridge_off_ground(2)
    \o << Ret("Motors.off_ground", 0, 0), Ret("Motors.new", 0, 0) >>

Motors_enable(en) ==
    << W("Motors.enable", 0, 0, "enable", IF en THEN 1 ELSE 0),
       Ret("Motors.enable", 0, 0) >>

Motors_off ==
    FullBridge_off(0) \o FullBridge_off(1) \o FullBridge_off(2)
        \o << Ret("Motors.off", 0, 0) >>

Motors_off_ground ==
    FullBridge_off_ground(0) \o FullBridge_off_ground(1) \o FullBridge_off_ground(2)
        \o << Ret("Motors.off_ground", 0, 0) >>

\* i16::from_be_bytes([hi, lo])
I16FromBe(hi, lo) == Signed(hi * 256 + lo, 16)

\* raw_pwm is indexed from 0 as in the source
Motors_set_raw_pwm(raw_pwm, checks) ==
    FullBridge_pwm(0, I16FromBe(raw_pwm[0], raw_pwm[1]), checks)
    \o FullBridge_pwm(1, I16FromBe(raw_pwm[2], raw_pwm[3]), checks)
    \o FullBridge_pwm(2, I16FromBe(raw_pwm[4], raw_pwm[5]), checks)
    \o << Ret("Motors.set_raw_pwm", 0, 0) >>

----------------------------------------------------------------------------
(* Host commands explored: three i16 per command, sent big-endian *)

CommandValues ==
    { <<0, 0, 0>>, <<1, -1, 0>>, <<-1, 32767, 1>>, <<32767, -32767, -1>>,
      <<-32767, 1, I16_MIN>>, <<I16_MIN, 0, 0>> }

\* the six bytes of a command, indexed from 0
RawOf(t) ==
    [j \in 0 .. 5 |->
        LET u == AsU16(t[(j \div 2) + 1])
        IN  IF j % 2 = 0 THEN u \div 256 ELSE u % 256]

RawCommands == { RawOf(t) : t \in CommandValues }

----------------------------------------------------------------------------
(* Execution of the driver calls, one register write at a time *)

\* Hardware after reset, the program about to run Motors::new and
\* motors.enable(true) (main.rs)
InitMotors ==
    /\ legs = [c \in Channels |-> [l \in Legs |-> ResetLeg]]
    /\ enable = FALSE
    /\ ops = Motors_new \o Motors_enable(TRUE)
    /\ returned = NoCall
    /\ halted = FALSE
    /\ overflow_checks \in BOOLEAN
    /\ set_calls = << >>

\* the register write, return or panic at the head of ops
MotorStep ==
    /\ ops # << >>
    /\ ~halted
    /\ LET o == Head(ops)
       IN  /\ legs' = CASE o.op = "gnd" -> [legs EXCEPT ![o.ch][o.leg].gnd = (o.val = 1)]
                        [] o.op = "af"  -> [legs EXCEPT ![o.ch][o.leg].af = (o.val = 1)]
                        [] o.op = "ccr" -> [legs EXCEPT ![o.ch][o.leg].ccr = o.val]
                        [] OTHER -> legs
           /\ enable' = IF o.op = "enable" THEN (o.val = 1) ELSE enable
           /\ returned' = IF o.op = "ret"
                          THEN [call |-> o.fn, ch |-> o.ch, arg |-> o.val]
                          ELSE NoCall
           /\ halted' = (o.op = "panic")
           /\ set_calls' = IF o.op = "ret" /\ o.fn = "FullBridge.pwm"
                           THEN Append(set_calls, <<o.ch, o.val>>)
                           ELSE set_calls
           /\ ops' = IF o.op = "panic" THEN << >> ELSE Tail(ops)
    /\ UNCHANGED <<besidesDrive, lvars, overflow_checks>>

\* a caller of the driver starts a call when none is running
CallSetRawPwm(raw) ==
    /\ ops = << >>
    /\ ~halted
    /\ ops' = Motors_set_raw_pwm(raw, overflow_checks)
    /\ returned' = NoCall
    /\ set_calls' = << >>
    /\ UNCHANGED <<besidesDrive, lvars, legs, enable, halted, overflow_checks>>

CallOffGround ==
    /\ ops = << >>
    /\ ~halted
    /\ ops' = Motors_off_ground
    /\ returned' = NoCall
    /\ UNCHANGED <<besidesDrive, lvars, legs, enable, halted, overflow_checks, set_calls>>

CallOff ==
    /\ ops = << >>
    /\ ~halted
    /\ ops' = Motors_off
    /\ returned' = NoCall
    /\ UNCHANGED <<besidesDrive, lvars, legs, enable, halted, overflow_checks, set_calls>>

\* the driver at rest after startup, for the specifications that do not run it
MotorsIdle ==
    /\ legs = [c \in Channels |-> [l \in Legs |-> [gnd |-> TRUE, af |-> FALSE, ccr |-> 0]]]
    /\ enable = TRUE
    /\ ops = << >>
    /\ returned = NoCall
    /\ halted = FALSE
    /\ overflow_checks = FALSE
    /\ set_calls = << >>

----------------------------------------------------------------------------
(* main.rs: the command watchdog of the control loop *)

MOTOR_CMD_TIMEOUT == 128

\* Ticks explored beyond the threshold.
MaxExtraTicks == 2

\* usize of the target is 32 bits; the counter is kept as two 16-bit halves
U32(hi, lo) == <<hi, lo>>

USIZE_MAX == U32(65535, 65535)

\* usize::wrapping_add(1)
WrappingAdd1(w) ==
    IF w[2] < 65535 THEN U32(w[1], w[2] + 1)
    ELSE IF w[1] < 65535 THEN U32(w[1] + 1, 0)
    ELSE U32(0, 0)

\* usize::saturating_add(1)
SaturatingAdd1(w) ==
    IF w = USIZE_MAX THEN w ELSE WrappingAdd1(w)

\* w >= n for a threshold n below 65536
GeSmall(w, n) == w[1] > 0 \/ w[2] >= n

\* the comparison made once, when the counter first reaches the threshold
TimedOutEdge(w) == w = U32(0, MOTOR_CMD_TIMEOUT)

\* watchdog_motor_cmd >= MOTOR_CMD_TIMEOUT
TimedOut(w) == GeSmall(w, MOTOR_CMD_TIMEOUT)

\* Host commands explored by the control loop
LoopCommandValues == { <<1, -1, 0>>, <<0, 32767, I16_MIN>> }

LoopRawCommands == { RawOf(t) : t \in LoopCommandValues }

\* usb_serial.read(..) returned Err
ReadErr == -1

\* usb_tx_buf.len()
TX_LEN == 24

\* what usb_serial.read may return: an error, or the length of the message
ReadResults == {ReadErr, 0, 5, 6, 7}

\* what try_read_sample may return to the loop (its runs are the subject of
\* Spec): no frame, an error, a Sample
TelemetryResults == {RNone, RErr, RSome([speed |-> -1, angle |-> 258, position |-> -256])}

\* the same without a Sample
TelemetryQuiet == {RNone, RErr}

\* the same with a second Sample
TelemetryTwoSamples ==
    TelemetryResults \cup {RSome([speed |-> 127, angle |-> -65536, position |-> 216])}

\* let mut usb_rx_buf = [0u8; 64]; let mut usb_tx_buf = [0u8; 24];
HostIdle ==
    /\ ri = 0
    /\ usb_polled = FALSE
    /\ usb_read = ReadErr
    /\ usb_rx_buf = [j \in 0 .. 5 |-> 0]
    /\ usb_tx_buf = [j \in 0 .. TX_LEN - 1 |-> 0]
    /\ write_offset = 0
    /\ write_blocked = FALSE
    /\ sent = << >>
    /\ report = << >>
    /\ fresh = {}
    /\ tried = {}
    /\ write_calls = 0
    /\ commanded = FALSE
    /\ pass_cmd = FALSE
    /\ pass_reports = 0
    /\ last_sample = [i \in Channels |-> NoSample]

\* a loop entered with the counter at 0
InitLoopFromZero ==
    /\ lpc = "tick"
    /\ watchdog_motor_cmd = U32(0, 0)
    /\ motor_timed_out = FALSE
    /\ tim1_uif = FALSE
    /\ silent = 0
    /\ HostIdle

\* The loop is entered with the counter at the threshold; the second value
\* is the counter after a silence of almost 2^32 ticks.
InitLoop ==
    /\ lpc = "tick"
    /\ watchdog_motor_cmd \in { U32(0, MOTOR_CMD_TIMEOUT), U32(65535, 65534) }
    /\ motor_timed_out = FALSE
    /\ tim1_uif = FALSE
    /\ silent = MOTOR_CMD_TIMEOUT
    /\ HostIdle

\* the loop at rest, for the specifications that do not run it
LoopIdle ==
    /\ lpc = "tick"
    /\ watchdog_motor_cmd = U32(0, MOTOR_CMD_TIMEOUT)
    /\ motor_timed_out = FALSE
    /\ tim1_uif = FALSE
    /\ silent = MOTOR_CMD_TIMEOUT
    /\ HostIdle

\* TIM1 reaches its reload value (2 kHz); the timer runs whatever the program
\* does.  Ticks are explored up to MaxExtraTicks beyond the threshold, and
\* without limit at the top of the usize range, where the counter saturates.
Tim1Update ==
    /\ ~tim1_uif
    /\ \/ (watchdog_motor_cmd[1] = 0
             /\ watchdog_motor_cmd[2] < MOTOR_CMD_TIMEOUT + MaxExtraTicks)
       \/ watchdog_motor_cmd[1] = 65535
    /\ tim1_uif' = TRUE
    /\ UNCHANGED <<besidesDrive, mvars, lpc, watchdog_motor_cmd, motor_timed_out, silent,
                   usbvars>>

\* if timer::TIM1.read_update_interrupt_flag() { clear; saturating_add(1) }
LoopTick ==
    /\ lpc = "tick"
    /\ ~halted
    /\ IF tim1_uif
       THEN /\ tim1_uif' = FALSE
            /\ watchdog_motor_cmd' = SaturatingAdd1(watchdog_motor_cmd)
            /\ silent' = IF silent < MOTOR_CMD_TIMEOUT THEN silent + 1 ELSE silent
       ELSE UNCHANGED <<tim1_uif, watchdog_motor_cmd, silent>>
    /\ lpc' = "check"
    /\ tried' = {}
    /\ UNCHANGED <<besidesDrive, mvars, motor_timed_out, ri, usb_polled, usb_read,
                   usb_rx_buf, usb_tx_buf, write_offset, write_blocked, sent, report,
                   fresh, write_calls, commanded, last_sample>>
    /\ pass_cmd' = FALSE
    /\ pass_reports' = 0

\* let motor_timed_out = ..; if motor_timed_out { motors.off_ground(); }
LoopCheck ==
    /\ lpc = "check"
    /\ ~halted
    /\ motor_timed_out' = TimedOut(watchdog_motor_cmd)
    /\ ops' = IF TimedOut(watchdog_motor_cmd) THEN Motors_off_ground ELSE ops
    /\ returned' = NoCall
    /\ lpc' = "read"
    /\ ri' = 0
    /\ UNCHANGED <<besidesDrive, legs, enable, halted, overflow_checks, set_calls,
                   watchdog_motor_cmd, tim1_uif, silent,
                   usb_polled, usb_read, usb_rx_buf, usb_tx_buf, write_offset,
                   write_blocked, sent, report, fresh, tried, write_calls, lghosts>>

\* a loop that keeps the payload of a slot already marked valid
WithSampleFirstKept(buf, i, s) ==
    [j \in 0 .. TX_LEN - 1 |->
        IF j = i * 8 THEN 1
        ELSE IF j \in i * 8 + 1 .. i * 8 + 7 /\ buf[i * 8] = 0
        THEN write_be_bytes(s)[j - (i * 8 + 1)]
        ELSE buf[j]]

\* usb_tx_buf after usb_tx_buf[i * 8] = 1; s.write_be_bytes(&mut usb_tx_buf[i * 8 + 1..])
WithSample(buf, i, s) ==
    [j \in 0 .. TX_LEN - 1 |->
        IF j = i * 8 THEN 1
        ELSE IF j \in i * 8 + 1 .. i * 8 + 7 THEN write_be_bytes(s)[j - (i * 8 + 1)]
        ELSE buf[j]]

\* one pass of `for (i, s) in TELEMETRY_SOURCE.iter().enumerate()`:
\* s.try_read_sample() returns r
LoopRead(r) ==
    /\ lpc = "read"
    /\ ops = << >>
    /\ ~halted
    /\ IF r.kind = "Some"
       THEN /\ usb_tx_buf' = WithSample(usb_tx_buf, ri, r.sample)
            /\ fresh' = fresh \cup {ri}
       ELSE UNCHANGED <<usb_tx_buf, fresh>>
    /\ tried' = tried \cup {ri}
    /\ IF ri < 2
       THEN /\ ri' = ri + 1
            /\ UNCHANGED lpc
       ELSE /\ ri' = 0
            /\ lpc' = "usb"
    /\ UNCHANGED <<besidesDrive, mvars, watchdog_motor_cmd, motor_timed_out, tim1_uif,
                   silent, usb_polled, usb_read, usb_rx_buf, write_offset,
                   write_blocked, sent, report, write_calls, commanded, pass_cmd, pass_reports>>
    /\ last_sample' = IF r.kind = "Some" THEN [last_sample EXCEPT ![ri] = r.sample]
                      ELSE last_sample

\* a test that takes every message of six bytes or more
AcceptsSixOrMore(polled, n) == polled /\ n >= 6

\* usb_dev.poll(..) is true and Some(6) == usb_serial.read(..).ok()
Accepts(polled, n) == polled /\ n = 6

\* usb_rx_buf[0..6] after usb_serial.read returned n for a message that
\* begins with the bytes msg
Received(buf, polled, n, msg) ==
    IF polled /\ n > 0
    THEN [j \in 0 .. 5 |-> IF j < n THEN msg[j] ELSE buf[j]]
    ELSE buf

\* usb_dev.poll is false, or usb_serial.read does not return Ok(6): continue
LoopNoCommand(polled, n, msg) ==
    /\ lpc = "usb"
    /\ ops = << >>
    /\ ~halted
    /\ ~Accepts(polled, n)
    /\ usb_polled' = polled
    /\ usb_read' = IF polled THEN n ELSE usb_read
    /\ usb_rx_buf' = Received(usb_rx_buf, polled, n, msg)
    /\ lpc' = "tick"
    /\ returned' = NoCall
    /\ UNCHANGED <<besidesDrive, legs, enable, ops, halted, overflow_checks, set_calls,
                   watchdog_motor_cmd, motor_timed_out, tim1_uif, silent,
                   ri, usb_tx_buf, write_offset, write_blocked, sent, report, fresh, tried,
                   write_calls, lghosts>>

\* a message of 6 bytes: motors.set_raw_pwm(&usb_rx_buf[0..6])
LoopCommand(polled, n, msg) ==
    /\ lpc = "usb"
    /\ ops = << >>
    /\ ~halted
    /\ Accepts(polled, n)
    /\ usb_polled' = polled
    /\ usb_read' = n
    /\ usb_rx_buf' = Received(usb_rx_buf, polled, n, msg)
    /\ ops' = Motors_set_raw_pwm(usb_rx_buf', overflow_checks)
    /\ set_calls' = << >>
    /\ returned' = NoCall
    /\ lpc' = "set"
    /\ UNCHANGED <<besidesDrive, legs, enable, halted, overflow_checks,
                   watchdog_motor_cmd, motor_timed_out, tim1_uif, silent,
                   ri, usb_tx_buf, write_offset, write_blocked, sent, report, fresh, tried,
                   write_calls, pass_reports, last_sample>>
    /\ commanded' = TRUE
    /\ pass_cmd' = TRUE

\* watchdog_motor_cmd = 0; let mut write_offset = 0;
LoopReset ==
    /\ lpc = "set"
    /\ ops = << >>
    /\ ~halted
    /\ watchdog_motor_cmd' = U32(0, 0)
    /\ silent' = 0
    /\ write_offset' = 0
    /\ write_blocked' = FALSE
    /\ sent' = << >>
    /\ write_calls' = 0
    /\ lpc' = "write"
    /\ returned' = NoCall
    /\ UNCHANGED <<besidesDrive, legs, enable, ops, halted, overflow_checks, set_calls,
                   motor_timed_out, tim1_uif,
                   ri, usb_polled, usb_read, usb_rx_buf, usb_tx_buf, report, fresh, tried>>
    /\ UNCHANGED lghosts

\* usb_serial.write(&usb_tx_buf[write_offset..]) returns Ok(len), len > 0:
\* write_offset += len
LoopWrite(len) ==
    /\ lpc = "write"
    /\ write_offset < TX_LEN
    /\ len \in 1 .. TX_LEN - write_offset
    /\ sent' = sent \o [k \in 1 .. len |-> usb_tx_buf[write_offset + k - 1]]
    /\ write_offset' = write_offset + len
    /\ write_blocked' = FALSE
    /\ write_calls' = 1 - write_calls
    /\ UNCHANGED <<besidesDrive, mvars, lpc, watchdog_motor_cmd, motor_timed_out,
                   tim1_uif, silent, ri, usb_polled, usb_read, usb_rx_buf, usb_tx_buf,
                   report, fresh, tried>>
    /\ UNCHANGED lghosts

\* usb_serial.write returns Ok(0) or an error: the loop tries again
LoopWriteBlocked ==
    /\ lpc = "write"
    /\ write_offset < TX_LEN
    /\ write_blocked' = TRUE
    /\ write_calls' = 1 - write_calls
    /\ UNCHANGED <<besidesDrive, mvars, lpc, watchdog_motor_cmd, motor_timed_out,
                   tim1_uif, silent, ri, usb_polled, usb_read, usb_rx_buf, usb_tx_buf,
                   write_offset, sent, report, fresh, tried>>
    /\ UNCHANGED lghosts

\* the transmit loop ends: let _ = usb_serial.flush();
LoopFlush ==
    /\ lpc = "write"
    /\ write_offset >= TX_LEN
    /\ report' = sent
    /\ lpc' = "clear"
    /\ UNCHANGED <<besidesDrive, mvars, watchdog_motor_cmd, motor_timed_out,
                   tim1_uif, silent, ri, usb_polled, usb_read, usb_rx_buf, usb_tx_buf,
                   write_offset, write_blocked, sent, fresh, tried, write_calls, commanded, pass_cmd, last_sample>>
    /\ pass_reports' = IF pass_reports < 2 THEN pass_reports + 1 ELSE pass_reports

\* a loop that clears the validity byte of the first channel only
ClearedFirst(buf) ==
    [j \in 0 .. TX_LEN - 1 |-> IF j = 0 THEN 0 ELSE buf[j]]

\* usb_tx_buf after `for i in 0..3 { usb_tx_buf[i * 8] = 0; }`
Cleared(buf) ==
    [j \in 0 .. TX_LEN - 1 |-> IF j \in {0, 8, 16} THEN 0 ELSE buf[j]]

\* the validity bytes are cleared and the next pass begins
LoopClear ==
    /\ lpc = "clear"
    /\ usb_tx_buf' = Cleared(usb_tx_buf)
    /\ fresh' = {}
    /\ lpc' = "tick"
    /\ UNCHANGED <<besidesDrive, mvars, watchdog_motor_cmd, motor_timed_out,
                   tim1_uif, silent, ri, usb_polled, usb_read, usb_rx_buf,
                   write_offset, write_blocked, sent, report, tried, write_calls, lghosts>>

----------------------------------------------------------------------------
(* A Sample on its way from the motor to the firmware: the motor puts it in *)
(* a frame, the line may flip bits, Sample::from_dataframe decodes it.       *)

\* Bit errors explored in one frame.
MaxFlips == 2

SampleValues ==
    [speed : {-128, -1, 0, 127},
     angle : {I32_MIN, -65536, -1, 0, 258, I32_MAX},
     position : {-32768, -256, -1, 0, 32767}]

\* bit k of byte x
BitOf(x, k) == (x \div (2 ^ k)) % 2

\* the checksum of the protocol, bit by bit: bit k is set when an even
\* number of the bytes 0..8 have their bit k set
Checksum8(frame) ==
    LET ones(k) == BitOf(frame[0], k) + BitOf(frame[1], k) + BitOf(frame[2], k)
                   + BitOf(frame[3], k) + BitOf(frame[4], k) + BitOf(frame[5], k)
                   + BitOf(frame[6], k) + BitOf(frame[7], k) + BitOf(frame[8], k)
        bit(k) == 1 - (ones(k) % 2)
    IN  bit(0) + 2 * bit(1) + 4 * bit(2) + 8 * bit(3)
        + 16 * bit(4) + 32 * bit(5) + 64 * bit(6) + 128 * bit(7)

\* the frame the motor sends for Sample s: start marker, the seven bytes of
\* write_be_bytes, a zero filler, the checksum
FrameOf(s) ==
    LET body == [i \in 0 .. FRAME_LEN - 2 |->
                    IF i = 0 THEN START
                    ELSE IF i \in 1 .. 7 THEN write_be_bytes(s)[i - 1]
                    ELSE 0]
    IN  [i \in 0 .. FRAME_LEN - 1 |->
            IF i = FRAME_LEN - 1 THEN Checksum8(body) ELSE body[i]]

NotDecoded == [ok |-> FALSE, sample |-> NoSample]

InitCodec ==
    /\ cpc = "sample"
    /\ csample \in SampleValues
    /\ cframe = [i \in 0 .. FRAME_LEN - 1 |-> 0]
    /\ cflips = 0
    /\ cdecoded = NotDecoded

\* no Sample under way, for the specifications that do not use one
CodecIdle ==
    /\ cpc = "sample"
    /\ csample = NoSample
    /\ cframe = [i \in 0 .. FRAME_LEN - 1 |-> 0]
    /\ cflips = 0
    /\ cdecoded = NotDecoded

\* the motor sends csample
SendSample ==
    /\ cpc = "sample"
    /\ cframe' = FrameOf(csample)
    /\ cpc' = "frame"
    /\ UNCHANGED <<csample, cflips, cdecoded, besidesCodec>>

\* the line flips the bits `mask` of byte i
FlipBits(i, mask) ==
    /\ cpc = "frame"
    /\ cflips < MaxFlips
    /\ cframe' = [cframe EXCEPT ![i] = Xor8(cframe[i], mask)]
    /\ cflips' = cflips + 1
    /\ UNCHANGED <<cpc, csample, cdecoded, besidesCodec>>

\* Sample::from_dataframe(&cframe)
DecodeFrame ==
    /\ cpc = "frame"
    /\ cdecoded' = from_dataframe(cframe)
    /\ cpc' = "decoded"
    /\ UNCHANGED <<csample, cframe, cflips, besidesCodec>>

NextC ==
    \/ SendSample
    \/ \E i \in {0, 1, 5, 8, 9} : \E mask \in {1, 128} : FlipBits(i, mask)
    \/ DecodeFrame

----------------------------------------------------------------------------
(* telemetry/initialization.rs: the handshake with one motor, and the USART  *)
(* it talks through (bluepill uart::Bus)                                     *)

POLL == 4
HELLO == << 82, 0, 194, 1, 0, 110 >>
CONFIRMED == << 92, 35, 0, 16, 32, 48, 0, 0, 0, 128 >>

\* for _ in 0..21
TOGGLES == 21

\* for _ in 0..100_000
ATTEMPTS == 100000

\* a byte of the motor's start-up messages that is not POLL
OTHER_BYTE == 82

NoByte == -1

\* what the motor may put on the line
LineBytes == {POLL, OTHER_BYTE}

\* The motor's POLL is explored arriving before the flush, before the first
\* and the second attempt, and before the last attempt of the budget; its
\* other bytes arrive at any time.
MarkerArrivals == {0, 1, ATTEMPTS - 1}

\* a loop that makes one attempt more
AttemptsLeftInclusive(n) == n <= ATTEMPTS

\* the range 0..100_000 has an element left after n iterations
AttemptsLeft(n) == n < ATTEMPTS

\* a test that takes any byte for the acknowledgement
IsAnyByte(r) == r # NoByte

\* if let Some(POLL) = ..
IsPoll(r) == r = POLL

\* the program is about to call initialization; the USART is configured
\* (Bus::new) with its status register at the reset value: TXE set, RXNE clear
InitHandshake ==
    /\ hpc = "start"
    /\ htoggles = 0
    /\ hidx = 0
    /\ attempts = 0
    /\ ack = FALSE
    /\ hret = "none"
    /\ rx_en \in BOOLEAN
    /\ tx_en \in BOOLEAN
    /\ txe = TRUE
    /\ rxdr = NoByte
    /\ hsent = << >>
    /\ flushed = NoByte
    /\ markerTaken = FALSE

\* no handshake under way, for the specifications that do not run one
HandshakeIdle ==
    /\ hpc = "start"
    /\ htoggles = 0
    /\ hidx = 0
    /\ attempts = 0
    /\ ack = FALSE
    /\ hret = "none"
    /\ rx_en = FALSE
    /\ tx_en = FALSE
    /\ txe = TRUE
    /\ rxdr = NoByte
    /\ hsent = << >>
    /\ flushed = NoByte
    /\ markerTaken = FALSE

\* the USART has moved the byte written into its shift register
TxShift ==
    /\ tx_en
    /\ ~txe
    /\ txe' = TRUE
    /\ UNCHANGED <<hpc, htoggles, hidx, attempts, ack, hret, rx_en, tx_en, rxdr, hsent,
                   flushed, markerTaken, besidesHandshake>>

\* the USART has received byte b from the motor while the program is at its
\* reads of the receiver
RxArrive(b) ==
    /\ rx_en
    /\ rxdr = NoByte
    /\ hpc \in {"flush", "wait"}
    /\ b = POLL => attempts \in MarkerArrivals
    /\ rxdr' = b
    /\ UNCHANGED <<hpc, htoggles, hidx, attempts, ack, hret, rx_en, tx_en, txe, hsent,
                   flushed, markerTaken, besidesHandshake>>

\* bus.rx_enable(false); bus.tx_enable(false); the TX pin becomes an output
HsDisable ==
    /\ hpc = "start"
    /\ rx_en' = FALSE
    /\ tx_en' = FALSE
    /\ hpc' = "toggle"
    /\ UNCHANGED <<htoggles, hidx, attempts, ack, hret, txe, rxdr, hsent, flushed,
                   markerTaken, besidesHandshake>>

\* one pass of the loop that turns the TX pin on and off
HsToggle ==
    /\ hpc = "toggle"
    /\ htoggles < TOGGLES
    /\ htoggles' = htoggles + 1
    /\ UNCHANGED <<hpc, hidx, attempts, ack, hret, rx_en, tx_en, txe, rxdr, hsent,
                   flushed, markerTaken, besidesHandshake>>

\* bus.tx_enable(true)
HsTxEnable ==
    /\ hpc = "toggle"
    /\ htoggles = TOGGLES
    /\ tx_en' = TRUE
    /\ hidx' = 0
    /\ hpc' = "hello"
    /\ UNCHANGED <<htoggles, attempts, ack, hret, rx_en, txe, rxdr, hsent, flushed,
                   markerTaken, besidesHandshake>>

\* Bus::write_byte inside wait_write_byte: the byte is written once TXE is
\* set; until then the call spins
HsWriteByte(pc, bytes) ==
    /\ hpc = pc
    /\ hidx < Len(bytes)
    /\ txe
    /\ txe' = FALSE
    /\ hsent' = Append(hsent, bytes[hidx + 1])
    /\ hidx' = hidx + 1
    /\ UNCHANGED <<hpc, htoggles, attempts, ack, hret, rx_en, tx_en, rxdr, flushed,
                   markerTaken, besidesHandshake>>

\* bus.write_bytes(&HELLO)
HsHello == HsWriteByte("hello", HELLO)

\* delay::millis(220); bus.rx_enable(true).  The delay is far longer than the
\* time of one byte on the line: the last byte of HELLO has left the register.
HsRxEnable ==
    /\ hpc = "hello"
    /\ hidx = Len(HELLO)
    /\ txe
    /\ rx_en' = TRUE
    /\ hpc' = "flush"
    /\ UNCHANGED <<htoggles, hidx, attempts, ack, hret, tx_en, txe, rxdr, hsent, flushed,
                   markerTaken, besidesHandshake>>

\* let _ = bus.read_byte();
HsFlush ==
    /\ hpc = "flush"
    /\ flushed' = rxdr
    /\ rxdr' = NoByte
    /\ hpc' = "wait"
    /\ UNCHANGED <<htoggles, hidx, attempts, ack, hret, rx_en, tx_en, txe, hsent,
                   markerTaken, besidesHandshake>>

\* one pass of the loop that waits for POLL: bus.read_byte() and the match
HsAttempt ==
    /\ hpc = "wait"
    /\ AttemptsLeft(attempts)
    /\ attempts' = attempts + 1
    /\ rxdr' = NoByte
    /\ markerTaken' = (markerTaken \/ rxdr = POLL)
    /\ IF IsPoll(rxdr)
       THEN /\ hidx' = 0
            /\ hpc' = "poll"
       ELSE UNCHANGED <<hidx, hpc>>
    /\ UNCHANGED <<htoggles, ack, hret, rx_en, tx_en, txe, hsent, flushed,
                   besidesHandshake>>

\* the range is used up: the loop ends with ack still false
HsGiveUp ==
    /\ hpc = "wait"
    /\ ~AttemptsLeft(attempts)
    /\ hpc' = "return"
    /\ UNCHANGED <<htoggles, hidx, attempts, ack, hret, rx_en, tx_en, txe, rxdr, hsent,
                   flushed, markerTaken, besidesHandshake>>

\* a handshake that sends the confirmation without the echo
HsPollNoEcho ==
    /\ hpc = "poll"
    /\ hidx = 0
    /\ txe
    /\ hpc' = "confirmed"
    /\ UNCHANGED <<htoggles, hidx, attempts, ack, hret, rx_en, tx_en, txe, rxdr, hsent,
                   flushed, markerTaken, besidesHandshake>>

\* delay::micros(800); bus.wait_write_byte(POLL)
HsPoll ==
    /\ hpc = "poll"
    /\ hidx = 0
    /\ txe
    /\ txe' = FALSE
    /\ hsent' = Append(hsent, POLL)
    /\ hpc' = "confirmed"
    /\ UNCHANGED <<htoggles, hidx, attempts, ack, hret, rx_en, tx_en, rxdr, flushed,
                   markerTaken, besidesHandshake>>

\* delay::millis(10); bus.write_bytes(&CONFIRMED)
HsConfirmed == HsWriteByte("confirmed", CONFIRMED)

\* ack = true; break
HsAck ==
    /\ hpc = "confirmed"
    /\ hidx = Len(CONFIRMED)
    /\ ack' = TRUE
    /\ hpc' = "return"
    /\ UNCHANGED <<htoggles, hidx, attempts, hret, rx_en, tx_en, txe, rxdr, hsent,
                   flushed, markerTaken, besidesHandshake>>

\* the value of the function: ack
HsReturn ==
    /\ hpc = "return"
    /\ hret' = IF ack THEN "true" ELSE "false"
    /\ hpc' = "done"
    /\ UNCHANGED <<htoggles, hidx, attempts, ack, rx_en, tx_en, txe, rxdr, hsent,
                   flushed, markerTaken, besidesHandshake>>

\* the steps of the program
HandshakeStep ==
    \/ HsDisable
    \/ HsToggle
    \/ HsTxEnable
    \/ HsHello
    \/ HsRxEnable
    \/ HsFlush
    \/ HsAttempt
    \/ HsGiveUp
    \/ HsPoll
    \/ HsConfirmed
    \/ HsAck
    \/ HsReturn

NextH ==
    \/ HandshakeStep
    \/ TxShift
    \/ \E b \in LineBytes : RxArrive(b)

----------------------------------------------------------------------------
(* main.rs: bring-up of the telemetry channels (for i in 0..3) and the TIM3  *)
(* interrupt that polls the motors                                           *)

\* POLL_COUNTER.fetch_add(1, ..) == 180
POLL_PERIOD == 180

\* main has enabled the TIM3 interrupt and is about to enter `for i in 0..3`
InitBringUp ==
    /\ bpc = "power"
    /\ bi = 0
    /\ ENABLED_FLAGS = [i \in Channels |-> FALSE]
    /\ lego_poller = [i \in Channels |-> FALSE]
    /\ rxneie = [i \in Channels |-> FALSE]
    /\ nvic_unmasked = [i \in Channels |-> FALSE]
    /\ enable_lego = [i \in Channels |-> TRUE]
    /\ POLL_COUNTER = 0
    /\ last_polled = {}
    /\ hs_result = [i \in Channels |-> "none"]
    /\ hs_calls = [i \in Channels |-> 0]
    /\ rx_writes = [i \in Channels |-> 0]
    /\ since_poll = 0
    /\ poll_gap = 0

\* the same, for the specifications that do not run the bring-up
BringUpIdle == InitBringUp

\* a status that ignores the result of the handshake
MotorOkAlways(poller) == TRUE

\* let motor_ok = lego_poller[i].is_some();
MotorOk(poller) == poller

\* leds[i].on(); gpio::write(ENABLE_LEGO[i], false)
BringUpPower ==
    /\ bpc = "power"
    /\ bi < 3
    /\ enable_lego' = [enable_lego EXCEPT ![bi] = FALSE]
    /\ bpc' = "new"
    /\ UNCHANGED <<bi, ENABLED_FLAGS, lego_poller, rxneie, nvic_unmasked, POLL_COUNTER,
                   last_polled, hs_result, hs_calls, rx_writes, since_poll, poll_gap,
                   besidesBringUp>>

\* lego_poller[i] = LegoMotorPoller::new(..): initialization(&mut bus) returns
\* ok (its run is the subject of SpecHandshake), then
\* bus.set_intterupts_mask(!ok); bus.rx_interrupt_enable(ok);
\* Some(Self{bus}).filter(|_| ok)
BringUpPollerNew(ok) ==
    /\ bpc = "new"
    /\ hs_calls' = [hs_calls EXCEPT ![bi] = @ + 1]
    /\ hs_result' = [hs_result EXCEPT ![bi] = IF ok THEN "true" ELSE "false"]
    /\ nvic_unmasked' = [nvic_unmasked EXCEPT ![bi] = ok]
    /\ rxneie' = [rxneie EXCEPT ![bi] = ok]
    /\ lego_poller' = [lego_poller EXCEPT ![bi] = ok]
    /\ bpc' = "store"
    /\ UNCHANGED <<bi, ENABLED_FLAGS, enable_lego, POLL_COUNTER, last_polled, rx_writes,
                   since_poll, poll_gap, besidesBringUp>>

\* a bring-up that stops at the first channel whose handshake failed
BringUpStoreOrStop ==
    /\ bpc = "store"
    /\ LET motor_ok == MotorOk(lego_poller[bi])
       IN  /\ ENABLED_FLAGS' = [ENABLED_FLAGS EXCEPT ![bi] = motor_ok]
           /\ enable_lego' = [enable_lego EXCEPT ![bi] = ~motor_ok]
           /\ bpc' = IF motor_ok THEN "power" ELSE "stopped"
    /\ bi' = bi + 1
    /\ UNCHANGED <<lego_poller, rxneie, nvic_unmasked, POLL_COUNTER, last_polled,
                   hs_result, hs_calls, rx_writes, since_poll, poll_gap,
                   besidesBringUp>>

\* ENABLED[i].store(motor_ok); leds[i].write(motor_ok);
\* gpio::write(ENABLE_LEGO[i], !motor_ok); next i
BringUpStore ==
    /\ bpc = "store"
    /\ LET motor_ok == MotorOk(lego_poller[bi])
       IN  /\ ENABLED_FLAGS' = [ENABLED_FLAGS EXCEPT ![bi] = motor_ok]
           /\ enable_lego' = [enable_lego EXCEPT ![bi] = ~motor_ok]
    /\ bi' = bi + 1
    /\ bpc' = "power"
    /\ UNCHANGED <<lego_poller, rxneie, nvic_unmasked, POLL_COUNTER, last_polled,
                   hs_result, hs_calls, rx_writes, since_poll, poll_gap,
                   besidesBringUp>>

\* the range 0..3 is used up: main sets up USB and enters its loop
BringUpEnd ==
    /\ bpc = "power"
    /\ bi = 3
    /\ bpc' = "loop"
    /\ UNCHANGED <<bi, ENABLED_FLAGS, lego_poller, rxneie, nvic_unmasked, enable_lego,
                   POLL_COUNTER, last_polled, hs_result, hs_calls, rx_writes, since_poll, poll_gap,
                   besidesBringUp>>

\* a handler that writes to every channel
PollTargetsAll == Channels

\* the channels with ENABLED[i].load(..) true
PollTargets == {i \in Channels : ENABLED_FLAGS[i]}

\* fn TIM3(): the handler runs to completion before main continues
Tim3Interrupt ==
    /\ IF POLL_COUNTER = POLL_PERIOD
       THEN /\ POLL_COUNTER' = 0
            /\ last_polled' = PollTargets
            /\ poll_gap' = since_poll + 1
            /\ since_poll' = 0
       ELSE /\ POLL_COUNTER' = (POLL_COUNTER + 1) % 256
            /\ since_poll' = since_poll + 1
            /\ UNCHANGED <<last_polled, poll_gap>>
    /\ UNCHANGED <<bpc, bi, ENABLED_FLAGS, lego_poller, rxneie, nvic_unmasked, enable_lego,
                   hs_result, hs_calls, rx_writes, besidesBringUp>>

\* an interrupt that is taken whatever the handshake returned
InterruptAlways(i) == TRUE

\* the receive interrupt of UART[i] is taken: RXNEIE is set and the NVIC line
\* is unmasked
InterruptEnabled(i) == rxneie[i] /\ nvic_unmasked[i]

\* fn USART2(), USART3(), USART1() for channel 0, 1, 2: a byte has arrived,
\* the handler reads it and calls TELEMETRY_SOURCE[i].write_byte(byte)
UsartInterrupt(i) ==
    /\ InterruptEnabled(i)
    /\ rx_writes[i] < FRAME_LEN
    /\ rx_writes' = [rx_writes EXCEPT ![i] = @ + 1]
    /\ UNCHANGED <<bpc, bi, ENABLED_FLAGS, lego_poller, rxneie, nvic_unmasked, enable_lego,
                   POLL_COUNTER, last_polled, hs_result, hs_calls, since_poll, poll_gap,
                   besidesBringUp>>

NextB ==
    \/ BringUpPower
    \/ \E ok \in BOOLEAN : BringUpPollerNew(ok)
    \/ BringUpStore
    \/ BringUpEnd
    \/ Tim3Interrupt

InitB ==
    InitTelemetry /\ MotorsIdle /\ LoopIdle /\ CodecIdle /\ HandshakeIdle /\ InitBringUp

SpecBringUp == InitB /\ [][NextB]_vars

----------------------------------------------------------------------------

Init == InitTelemetry /\ MotorsIdle /\ LoopIdle /\ CodecIdle /\ HandshakeIdle
    /\ BringUpIdle

Next ==
    \/ \E b \in ByteValues : WriteByteCas(b)
    \/ WriteByteOverrun
    \/ WriteByteStore
    \/ TryReadCas
    \/ TryReadDecode
    \/ TryReadPublish
    \/ TryReadReset

Spec == Init /\ [][Next]_vars

\* a DataFrame as the sequence of its bytes on the line
OnLine(frame) == [k \in 1 .. FRAME_LEN |-> frame[k - 1]]

\* two frames of the motor; the second has a byte equal to START in its body
Frame1 == OnLine(FrameOf([speed |-> -1, angle |-> 258, position |-> -256]))
Frame2 == OnLine(FrameOf([speed |-> 127, angle |-> -65536, position |-> 216]))

\* Frame1 with a bit error in its checksum
BadFrame == [Frame1 EXCEPT ![FRAME_LEN] = Xor8(@, 1)]

\* a byte of noise on the line
NOISE == 39

\* What the motor sends: two frames in a row; three in a row; a damaged
\* frame, then a good one; frames with noise before and between them.
Lines ==
    { Frame1 \o Frame2,
      Frame2 \o Frame2 \o Frame1,
      BadFrame \o Frame1,
      <<NOISE>> \o Frame2 \o <<NOISE, NOISE>> \o Frame1 }

\* the USART handler passes the next byte of the line to write_byte
LineWrite ==
    /\ line # << >>
    /\ nwrites < Len(line)
    /\ WriteByteCas(line[nwrites + 1])

\* the USART handler passes any byte to write_byte
FreeWrite(b) ==
    /\ line = << >>
    /\ WriteByteCas(b)

\* the steps of the poll loop inside try_read_sample
ReaderStep ==
    \/ TryReadCas
    \/ TryReadDecode
    \/ TryReadPublish
    \/ TryReadReset

\* the steps of the interrupt handler after its first
HandlerStep ==
    \/ WriteByteOverrun
    \/ WriteByteStore

\* The buffer fed with the bytes of a line, the poll loop reading at any pace
InitLine ==
    /\ \E l \in Lines : TelemetryNew(l)
    /\ MotorsIdle /\ LoopIdle /\ CodecIdle /\ HandshakeIdle /\ BringUpIdle

NextLine ==
    \/ LineWrite
    \/ HandlerStep
    \/ ReaderStep

SpecLine == InitLine /\ [][NextLine]_vars

\* The buffer fed with a line or with any bytes; the interrupt handler runs to
\* its end and the poll loop keeps calling try_read_sample.
InitRecover ==
    /\ \E l \in Lines \cup {<< >>} : TelemetryNew(l)
    /\ MotorsIdle /\ LoopIdle /\ CodecIdle /\ HandshakeIdle /\ BringUpIdle

NextRecover ==
    \/ LineWrite
    \/ \E b \in ByteValues : FreeWrite(b)
    \/ HandlerStep
    \/ ReaderStep

SpecRecover ==
    InitRecover /\ [][NextRecover]_vars /\ WF_vars(HandlerStep) /\ WF_vars(ReaderStep)

\* Samples through the frame decoder
InitC == InitTelemetry /\ MotorsIdle /\ LoopIdle /\ InitCodec /\ HandshakeIdle
    /\ BringUpIdle

SpecCodec == InitC /\ [][NextC]_vars

\* One handshake, from the call of initialization to its return
InitH == InitTelemetry /\ MotorsIdle /\ LoopIdle /\ CodecIdle /\ InitHandshake
    /\ BringUpIdle

\* The processor runs the program without pause and the USART, once its
\* transmitter is enabled, sends the byte it holds.
SpecHandshake ==
    InitH /\ [][NextH]_vars /\ WF_vars(HandshakeStep) /\ WF_vars(TxShift)

\* The motor driver under every sequence of calls
InitM == InitTelemetry /\ InitMotors /\ LoopIdle /\ CodecIdle /\ HandshakeIdle
    /\ BringUpIdle

NextM ==
    \/ MotorStep
    \/ \E raw \in RawCommands : CallSetRawPwm(raw)
    \/ CallOffGround
    \/ CallOff

SpecMotors == InitM /\ [][NextM]_vars

\* The control loop with its watchdog, entered after Motors::new and enable
MotorsStarted ==
    /\ legs = [c \in Channels |-> [l \in Legs |-> [gnd |-> TRUE, af |-> FALSE, ccr |-> 0]]]
    /\ enable = TRUE
    /\ ops = << >>
    /\ returned = NoCall
    /\ halted = FALSE
    /\ overflow_checks \in BOOLEAN
    /\ set_calls = << >>

InitL == InitTelemetry /\ MotorsStarted /\ InitLoop /\ CodecIdle /\ HandshakeIdle
    /\ BringUpIdle

\* the watchdog: timer ticks, no telemetry, reports taken whole by the host
NextL ==
    \/ Tim1Update
    \/ LoopTick
    \/ LoopCheck
    \/ \E r \in TelemetryQuiet : LoopRead(r)
    \/ \E polled \in BOOLEAN : \E n \in ReadResults : \E msg \in LoopRawCommands :
          \/ LoopNoCommand(polled, n, msg)
          \/ LoopCommand(polled, n, msg)
    \/ LoopReset
    \/ LoopWrite(TX_LEN)
    \/ LoopWriteBlocked
    \/ LoopFlush
    \/ LoopClear
    \/ MotorStep

SpecLoop == InitL /\ [][NextL]_vars

\* the reports to the host: telemetry on every channel, reports taken in
\* pieces, no timer tick
NextR ==
    \/ LoopTick
    \/ LoopCheck
    \/ \E r \in TelemetryResults : LoopRead(r)
    \/ \E polled \in BOOLEAN : \E n \in {ReadErr, 6} : \E msg \in LoopRawCommands :
          \/ LoopNoCommand(polled, n, msg)
          \/ LoopCommand(polled, n, msg)
    \/ LoopReset
    \/ \E len \in {8, 16, TX_LEN} : LoopWrite(len)
    \/ LoopWriteBlocked
    \/ LoopFlush
    \/ LoopClear
    \/ MotorStep

SpecReport == InitL /\ [][NextR]_vars

\* the payload of the reports: two different Samples on every channel, one
\* host command, reports taken whole, no timer tick
NextS ==
    \/ LoopTick
    \/ LoopCheck
    \/ \E r \in TelemetryTwoSamples : LoopRead(r)
    \/ \E polled \in BOOLEAN : \E n \in {ReadErr, 6} :
          \/ LoopNoCommand(polled, n, RawOf(<<1, -1, 0>>))
          \/ LoopCommand(polled, n, RawOf(<<1, -1, 0>>))
    \/ LoopReset
    \/ LoopWrite(TX_LEN)
    \/ LoopFlush
    \/ LoopClear
    \/ MotorStep

SpecSamples == InitL /\ [][NextS]_vars

\* the steps of the program in its loop: the host sends commands or nothing,
\* and usb_serial.write takes the whole report or no byte
ProgramStep ==
    \/ LoopTick
    \/ LoopCheck
    \/ \E r \in TelemetryQuiet : LoopRead(r)
    \/ \E polled \in BOOLEAN : \E n \in {ReadErr, 6} : \E msg \in LoopRawCommands :
          \/ LoopNoCommand(polled, n, msg)
          \/ LoopCommand(polled, n, msg)
    \/ LoopReset
    \/ LoopWrite(TX_LEN)
    \/ LoopWriteBlocked
    \/ LoopFlush
    \/ LoopClear
    \/ MotorStep

NextF ==
    \/ Tim1Update
    \/ ProgramStep

\* The processor runs the program without pause and TIM1 keeps counting; the
\* host is free to send nothing and to take nothing.
SpecLoopFair ==
    InitL /\ [][NextF]_vars /\ WF_vars(ProgramStep) /\ WF_vars(Tim1Update)

\* s.try_read_sample() of channel ri returns r.  The buffer of a channel is
\* written by its USART handler only; before ten write_byte calls it holds no
\* whole frame and the call returns Ok(None) (FewWritesNoSample).
ChannelRead(r) ==
    /\ r # RNone => rx_writes[ri] = FRAME_LEN
    /\ LoopRead(r)

\* the steps of the loop of main that the channels take part in: no host
\* message arrives
ChannelLoopStep ==
    \/ LoopTick
    \/ LoopCheck
    \/ MotorStep
    \/ \E r \in TelemetryResults : ChannelRead(r)
    \/ \E msg \in LoopRawCommands : LoopNoCommand(FALSE, ReadErr, msg)

\* The three channels from their bring-up on: the handshakes, the receive
\* interrupts of the channels that are let through, then the loop of main
InitP == InitTelemetry /\ MotorsIdle /\ LoopIdle /\ CodecIdle /\ HandshakeIdle
    /\ InitBringUp

NextP ==
    \/ BringUpPower
    \/ \E ok \in BOOLEAN : BringUpPollerNew(ok)
    \/ BringUpStore
    \/ BringUpEnd
    \/ \E i \in Channels : UsartInterrupt(i)
    \/ (bpc = "loop" /\ ChannelLoopStep)

SpecChannels == InitP /\ [][NextP]_vars

\* the passes of `for i in 0..3`, each handshake returning true or false
BringUpStep ==
    \/ BringUpPower
    \/ \E ok \in BOOLEAN : BringUpPollerNew(ok)
    \/ BringUpStore
    \/ BringUpEnd

\* the three USARTs of the microcontroller, by their number
Usarts == 1 .. 3

\* const UART: [uart::Usart; 3] = [UART2, UART3, UART1]: the USART of the
\* serial link of motor i
UART == [i \in Channels |-> CASE i = 0 -> 2 [] i = 1 -> 3 [] OTHER -> 1]

\* handlers that write the buffer with the number of their USART less one
UsartSourceByNumber == [u \in Usarts |-> u - 1]

\* the index of TELEMETRY_SOURCE that fn USART1, USART2, USART3 write
UsartSource == [u \in Usarts |-> CASE u = 1 -> 2 [] u = 2 -> 0 [] OTHER -> 1]

\* the channel whose bring-up configures USART u: lego_poller[i] =
\* LegoMotorPoller::new(config_uart.make(UART[i]))
LinkOf(u) == CHOOSE i \in Channels : UART[i] = u

\* TELEMETRY_SOURCE[i] is written: the receive interrupt of a USART whose
\* handler writes it is taken
BufferFed(i) == \E u \in Usarts : UsartSource[u] = i /\ InterruptEnabled(LinkOf(u))

\* s.try_read_sample() of channel ri returns r; a buffer that is never
\* written holds no frame and the call returns Ok(None)
HostLoopRead(r) ==
    /\ r # RNone => BufferFed(ri)
    /\ LoopRead(r)

\* the loop of main with a host that sends commands and takes each report
\* whole
HostLoopStep ==
    \/ LoopTick
    \/ LoopCheck
    \/ \E r \in TelemetryResults : HostLoopRead(r)
    \/ \E polled \in BOOLEAN : \E n \in {ReadErr, 6} : \E msg \in LoopRawCommands :
          \/ LoopNoCommand(polled, n, msg)
          \/ LoopCommand(polled, n, msg)
    \/ LoopReset
    \/ LoopWrite(TX_LEN)
    \/ LoopFlush
    \/ LoopClear
    \/ MotorStep

\* main from the bring-up of the channels on: every combination of handshake
\* results, then the loop with host commands; the processor runs the bring-up
\* without pause
InitWhole == InitTelemetry /\ MotorsStarted /\ LoopIdle /\ CodecIdle /\ HandshakeIdle
    /\ InitBringUp

NextWhole ==
    \/ BringUpStep
    \/ (bpc = "loop" /\ HostLoopStep)

SpecWhole == InitWhole /\ [][NextWhole]_vars /\ WF_vars(BringUpStep)

----------------------------------------------------------------------------
(* Properties of the Telemetry Buffer *)

\* the ten bytes of a burst as a DataFrame
AsFrame(seq) == [i \in 0 .. FRAME_LEN - 1 |-> seq[i + 1]]

\* ten write_byte calls in a row, the first finding Idle, carried a frame that
\* starts with START and ends with its checksum
ValidFrameWritten ==
    /\ Len(burst) = FRAME_LEN
    /\ burst[1] = START
    /\ checksum_checker(AsFrame(burst))

\* C1: after ten write_byte calls in a row, begun in Idle, with a frame that
\* starts with START and has a correct checksum, the first try_read_sample
\* begun afterwards returns Ok(Some(decode of the ten bytes)), and no later
\* call returns a Sample until a new frame is begun.
C1_FrameReadExactlyOnce ==
    (ValidFrameWritten /\ rpc = "idle" /\ wpc = "idle" /\ callsSince >= 1) =>
        IF callsSince = 1
        THEN result = RSome(from_be_bytes(AsFrame(burst)))
        ELSE result.kind # "Some"

C1_Witness ==
    /\ ValidFrameWritten
    /\ rpc = "idle"
    /\ callsSince = 1
    /\ result.kind = "Some"

\* C2: the writer is at its store into the frame only while the state is
\* Writing, the reader is at its read of the frame only while the state is
\* Reading, so the two are never both at the frame.
C2_OneSideAuthorized ==
    /\ wpc = "store" => status = WRITING
    /\ rpc = "decode" => status = READING
    /\ ~(wpc = "store" /\ rpc = "decode")

\* a write_byte call running between two steps of try_read_sample
C2_Witness ==
    /\ rpc \in {"decode", "publish"}
    /\ wpc = "overrun"

\* C8: a write_byte call that finds DoneWriting or Reading returns Err, leaves
\* the state and the ten frame bytes as they were and the cursor at 0.
C8_OverrunKeepsFrame ==
    [][ /\ (wpc = "idle" /\ wpc' # "idle" /\ status \in {DONEWRITING, READING}) =>
              (wpc' = "overrun" /\ status' = status /\ data' = data)
        /\ (wpc = "overrun") =>
              (/\ wpc' = "idle"
               /\ wresult' = RErr
               /\ status' = status
               /\ data' = data
               /\ write_index' = 0) ]_vars

\* an unread whole frame and a later write_byte call that was refused
C8_Witness ==
    /\ wpc = "idle"
    /\ wresult = RErr
    /\ status \in {DONEWRITING, READING}
    /\ Len(burst) = FRAME_LEN
    /\ nwrites > FRAME_LEN

\* C9: a try_read_sample call that won DoneWriting -> Reading has published
\* Idle when it returns, also when the checksum fails: between calls of
\* try_read_sample the state is never Reading.
C9_ReadPublishesIdle ==
    rpc = "idle" => status # READING

\* C11: a try_read_sample call begun after one that returned a Sample, with no
\* write_byte call since, returns Ok(None).
C11_SecondReadNone ==
    (sinceRead >= 1 /\ rpc = "idle") => result = RNone

\* the second call in a row after a frame was read
C11_Witness ==
    /\ sinceRead = 1
    /\ rpc = "idle"
    /\ result = RNone
    /\ ValidFrameWritten

\* a write_byte call has returned; it was made at cursor 0
ReturnedFromCursor0 ==
    wpc = "idle" /\ wresult # RPending /\ wentry.cursor = 0

\* the call returned an error and left the cursor at 0 and the buffer Idle
FramingRejected ==
    wresult = RErr /\ write_index = 0 /\ status = IDLE

\* C12 as stated: every write_byte call made at cursor 0 with a byte other than
\* START returns an error and leaves the cursor at 0 and the buffer Idle.
C12_NonStartAtCursor0 ==
    (ReturnedFromCursor0 /\ wbyte # START) => FramingRejected

\* C12: a write_byte call made at cursor 0 of an Idle buffer with a byte other
\* than START returns an error and leaves the cursor at 0 and the buffer Idle;
\* a call made with START at cursor 0 of an Idle buffer begins a frame (the
\* byte is at index 0, the cursor at 1, the state Writing).
C12_FramingResync ==
    /\ (ReturnedFromCursor0 /\ wentry.status = IDLE /\ wbyte # START) => FramingRejected
    /\ (ReturnedFromCursor0 /\ wentry.status = IDLE /\ wbyte = START) =>
          (wresult = ROk /\ write_index = 1 /\ data[0] = START /\ status = WRITING)
    /\ (wpc = "idle" /\ status = IDLE) => write_index = 0

\* a byte of noise refused after a whole frame was read
C12_Witness ==
    /\ ReturnedFromCursor0
    /\ wentry.status = IDLE
    /\ wbyte # START
    /\ FramingRejected
    /\ nwrites > FRAME_LEN

\* okframe holds the bytes of ten write_byte calls in a row that all returned
\* Ok, the first byte being the start marker
WholeOkFrame ==
    Len(okframe) = FRAME_LEN /\ okframe[1] = START

\* C25: under every interleaving, while try_read_sample reads the frame the
\* ten bytes it reads are those of the last ten write_byte calls in a row that
\* all returned Ok, the first being the start marker, and the Sample it
\* returns is the decode of these ten bytes: bytes of two frames are never
\* mixed.
C25_SampleFromOneFrame ==
    /\ [](rpc \in {"decode", "publish"} => (WholeOkFrame /\ data = AsFrame(okframe)))
    /\ [][ (rpc = "publish" /\ rpc' = "idle") =>
              /\ WholeOkFrame
              /\ checksum_checker(AsFrame(okframe))
              /\ result' = RSome(from_be_bytes(AsFrame(okframe))) ]_vars

\* the third frame of a line returned after the first was returned and the
\* second was lost to an overrun
C25_Witness ==
    /\ line = Frame2 \o Frame2 \o Frame1
    /\ nwrites = Len(line)
    /\ rpc = "idle"
    /\ okframe = Frame1
    /\ result = RSome([speed |-> -1, angle |-> 258, position |-> -256])
    /\ frame_returns = 1

\* C26: under every interleaving, since the state last became DoneWriting at
\* most one try_read_sample call has returned a Sample.
C26_FrameReturnedOnce ==
    frame_returns <= 1

\* two frames of a line each returned once, and two more calls made after the
\* second
C26_Witness ==
    /\ line = Frame1 \o Frame2
    /\ nwrites = Len(line)
    /\ okframe = Frame2
    /\ frame_returns = 1
    /\ sinceRead = 2
    /\ rpc = "idle"
    /\ result = RNone

\* the step belongs to a write_byte call
ByWriteByte == wpc' # wpc

\* the step belongs to a try_read_sample call
ByTryRead == wpc' = wpc

\* C27: the state is always one of Idle, Writing, DoneWriting, Reading, and a
\* step that changes it is one of: Idle to Writing by write_byte; Writing to
\* DoneWriting by write_byte storing the tenth byte; Writing to Idle by
\* write_byte refusing a first byte that is not the start marker; DoneWriting
\* to Reading by try_read_sample; Reading to Idle by try_read_sample.
\* write_byte never changes DoneWriting or Reading, try_read_sample never
\* changes Idle or Writing.
C27_TransitionTable ==
    /\ [](status \in {IDLE, WRITING, DONEWRITING, READING})
    /\ [][ status' # status =>
              \/ (ByWriteByte /\ status = IDLE /\ status' = WRITING)
              \/ (ByWriteByte /\ status = WRITING /\ status' = DONEWRITING
                    /\ write_index = FRAME_LEN - 1 /\ wresult' = ROk)
              \/ (ByWriteByte /\ status = WRITING /\ status' = IDLE
                    /\ write_index = 0 /\ wbyte # START /\ wresult' = RErr)
              \/ (ByTryRead /\ status = DONEWRITING /\ status' = READING)
              \/ (ByTryRead /\ status = READING /\ status' = IDLE) ]_vars
    /\ [][ (ByWriteByte /\ status \in {DONEWRITING, READING}) => status' = status ]_vars
    /\ [][ (ByTryRead /\ status \in {IDLE, WRITING}) => status' = status ]_vars

\* the buffer back in Idle by the second try_read_sample call after a frame
\* with a bad checksum, refused bytes in between
C27_Witness ==
    /\ status = IDLE
    /\ rentry = READING
    /\ result = RErr
    /\ rpc = "idle" /\ wpc = "idle"
    /\ wresult = RErr
    /\ nwrites > FRAME_LEN

\* C28: the cursor is always in 0..9; between write_byte calls it is 0 when
\* the state is Idle, DoneWriting or Reading and in 1..9 when the state is
\* Writing; a call that finds Idle finds the cursor at 0 and stores its byte
\* at index 0.
C28_CursorFollowsState ==
    /\ write_index \in 0 .. FRAME_LEN - 1
    /\ wpc = "idle" =>
          IF status = WRITING THEN write_index \in 1 .. FRAME_LEN - 1
          ELSE write_index = 0
    /\ wentry.status = IDLE => wentry.cursor = 0
    /\ (wpc = "idle" /\ wresult # RPending /\ wentry.status = IDLE) => data[0] = wbyte

\* the start marker of a second frame stored at index 0 after the first frame
\* was read
C28_Witness ==
    /\ wpc = "idle"
    /\ wresult = ROk
    /\ wentry = [cursor |-> 0, status |-> IDLE]
    /\ nwrites = FRAME_LEN + 1
    /\ status = WRITING
    /\ write_index = 1
    /\ data[0] = START
    /\ frame_returns = 1

\* C29: a try_read_sample call that finds Idle or Writing returns Ok(None) at
\* once and changes neither the state nor the cursor nor the frame bytes.
C29_PollLeavesFrame ==
    /\ [][ (rpc = "idle" /\ ByTryRead /\ status \in {IDLE, WRITING}) =>
              /\ result' = RNone
              /\ rpc' = "idle"
              /\ status' = status
              /\ write_index' = write_index
              /\ data' = data ]_vars
    /\ []((rpc = "idle" /\ rentry \in {IDLE, WRITING}) => result = RNone)

\* a frame polled when nine of its bytes were stored
C29_Witness ==
    /\ rpc = "idle"
    /\ rentry = WRITING
    /\ result = RNone
    /\ status = WRITING
    /\ write_index = FRAME_LEN - 1
    /\ data[0] = START

\* C30: with the poll loop calling try_read_sample again and again, a buffer
\* that is DoneWriting or Reading, after whatever errors, comes back to Idle;
\* a first byte equal to the start marker written to an Idle buffer is
\* accepted; and a complete frame with a good checksum, once stored, is
\* returned as its Sample by a later try_read_sample call.
C30_ErrorsRecovered ==
    /\ (status \in {DONEWRITING, READING}) ~> (status = IDLE)
    /\ []((wpc = "idle" /\ wresult # RPending /\ wentry.status = IDLE /\ wbyte = START)
            => wresult = ROk)
    /\ (status = DONEWRITING /\ checksum_checker(data))
          ~> (rpc = "idle" /\ result = RSome(from_be_bytes(data)))

\* the good frame that follows a damaged one on the line, delivered after the
\* damaged one was reported and the buffer reset
C30_Witness ==
    /\ line = BadFrame \o Frame1
    /\ nwrites = Len(line)
    /\ rpc = "idle"
    /\ result = RSome(from_be_bytes([k \in 0 .. FRAME_LEN - 1 |-> Frame1[k + 1]]))
    /\ status = IDLE
    /\ frame_returns = 1

\* C10: no try_read_sample call observes Reading at its entry (the branch
\* Err(READING) is never taken).
C10_NeverReentrant ==
    rpc # "reset"

----------------------------------------------------------------------------
(* Properties of the frame decoder *)

\* C13: Sample::from_dataframe returns a Sample if and only if byte 9 of the
\* frame equals the bitwise NOT of the XOR of bytes 0 through 8, and that
\* Sample is the one parsed from bytes 1..7; otherwise it returns an error and
\* no Sample.
C13_DecodesIffChecksum ==
    cpc = "decoded" =>
        IF cframe[FRAME_LEN - 1] = Checksum8(cframe)
        THEN cdecoded = [ok |-> TRUE, sample |-> from_be_bytes(cframe)]
        ELSE cdecoded = NotDecoded

\* a frame refused for a bit error in its start marker
C13_Witness ==
    /\ cpc = "decoded"
    /\ ~cdecoded.ok
    /\ cframe[0] # START
    /\ cflips = 1

\* a frame with two bit errors accepted because they cancel in the checksum
C13_WitnessAccepted ==
    /\ cpc = "decoded"
    /\ cdecoded.ok
    /\ cflips = 2
    /\ cframe # FrameOf(csample)

\* C14: a Sample written with write_be_bytes into bytes 1..7 of a frame with
\* start marker, zero filler and its checksum decodes with from_dataframe to
\* a Sample with the same speed, angle and position.
C14_RoundTrip ==
    (cpc = "decoded" /\ cflips = 0) =>
        /\ cdecoded.ok
        /\ cdecoded.sample.speed = csample.speed
        /\ cdecoded.sample.angle = csample.angle
        /\ cdecoded.sample.position = csample.position

\* the round trip of the most negative value of every field
C14_Witness ==
    /\ cpc = "decoded"
    /\ cflips = 0
    /\ cdecoded.ok
    /\ csample = [speed |-> -128, angle |-> I32_MIN, position |-> -32768]

----------------------------------------------------------------------------
(* Properties of the handshake *)

\* C15: initialization returns true if a read_byte call of the waiting loop
\* (made after the flush, among its 100000 attempts) took POLL from the
\* receiver, and false if none did.
C15_SuccessIffMarkerRead ==
    /\ hpc = "done" => (hret = IF markerTaken THEN "true" ELSE "false")
    /\ (hpc = "done" /\ markerTaken) => attempts \in 1 .. ATTEMPTS

\* success on the marker delivered to the last attempt of the budget
C15_Witness ==
    /\ hpc = "done"
    /\ hret = "true"
    /\ attempts = ATTEMPTS

\* failure although the motor sent POLL: the flush took it
C15_WitnessFlushed ==
    /\ hpc = "done"
    /\ hret = "false"
    /\ flushed = POLL

\* the waiting loop never makes more than 100000 attempts, and a handshake
\* that returns without having read POLL has made exactly 100000 and returns
\* false
AttemptBudgetKept ==
    /\ attempts <= ATTEMPTS
    /\ (hpc = "done" /\ ~markerTaken) => (attempts = ATTEMPTS /\ hret = "false")

\* C16: the handshake always returns; against a motor that never sends POLL
\* it makes exactly 100000 attempts and returns false; it never makes more
\* than 100000 attempts.
C16_HandshakeTerminates ==
    /\ []AttemptBudgetKept
    /\ <>(hpc = "done")

\* the budget used up without POLL
C16_Witness ==
    /\ hpc = "done"
    /\ hret = "false"
    /\ attempts = ATTEMPTS
    /\ ~markerTaken
    /\ Len(hsent) = Len(HELLO)

\* s is the beginning of t
IsPrefix(s, t) == Len(s) <= Len(t) /\ s = SubSeq(t, 1, Len(s))

\* everything a handshake that succeeds puts on the line
HandshakeBytes == HELLO \o <<POLL>> \o CONFIRMED

\* the program is past the flush of the receiver
PastFlush == hpc \in {"wait", "poll", "confirmed", "return", "done"}

\* C31: the order of the handshake.  Receive and transmit are off from the
\* first step and during the 21 toggles; transmit comes on, and the first byte
\* goes out, only after the last toggle; receive comes on only when the whole
\* hello sequence has left; the flush read comes before the first attempt;
\* the bytes sent are a beginning of hello, echo, confirmation in that order;
\* a handshake that fails has sent the hello sequence and nothing else.
C31_HandshakeOrder ==
    /\ [](hpc = "toggle" => (~rx_en /\ ~tx_en))
    /\ [][htoggles' # htoggles => (~rx_en /\ ~tx_en /\ ~rx_en' /\ ~tx_en' /\ hsent = << >>)]_vars
    /\ []((hpc # "start" /\ tx_en) => htoggles = TOGGLES)
    /\ [](hsent # << >> => (htoggles = TOGGLES /\ tx_en))
    /\ []((hpc # "start" /\ rx_en) => (IsPrefix(HELLO, hsent) /\ hpc # "hello"))
    /\ [][(rx_en' /\ ~rx_en) => (hsent = HELLO /\ txe)]_vars
    /\ [](attempts > 0 => PastFlush)
    /\ [][(PastFlush' /\ ~PastFlush) => (hpc = "flush" /\ rxdr' = NoByte /\ attempts = 0)]_vars
    /\ [](IsPrefix(hsent, HandshakeBytes))
    /\ [](Len(hsent) > Len(HELLO) => markerTaken)
    /\ []((hpc = "done" /\ hret = "false") => hsent = HELLO)
    /\ []((hpc = "done" /\ hret = "true") => hsent = HandshakeBytes)

\* a handshake that discarded a byte of the motor, then read the marker and
\* sent echo and confirmation
C31_Witness ==
    /\ hpc = "done"
    /\ hret = "true"
    /\ flushed = OTHER_BYTE
    /\ attempts > 1
    /\ hsent = HandshakeBytes
    /\ htoggles = TOGGLES

----------------------------------------------------------------------------
(* Properties of the bring-up *)

\* ENABLED flag true, receive interrupt enabled, poller present
Online(i) ==
    ENABLED_FLAGS[i] /\ rxneie[i] /\ nvic_unmasked[i] /\ lego_poller[i]

\* none of them
Offline(i) ==
    ~ENABLED_FLAGS[i] /\ ~rxneie[i] /\ ~nvic_unmasked[i] /\ ~lego_poller[i]

\* the pass of the bring-up loop for channel i is over
BroughtUp(i) == bi > i

\* after its pass a channel is Online if its handshake returned true and
\* Offline if it returned false; a channel is Online at no other time; the
\* handshake of a channel is made once
StatusIsHandshakeResult ==
    \A i \in Channels :
        /\ BroughtUp(i) => hs_calls[i] = 1
        /\ BroughtUp(i) => IF hs_result[i] = "true" THEN Online(i) ELSE Offline(i)
        /\ ENABLED_FLAGS[i] => (BroughtUp(i) /\ hs_result[i] = "true")
        /\ hs_calls[i] <= 1

\* once the pass of a channel is over no step changes its status or calls its
\* handshake
StatusIsFinal ==
    \A i \in Channels :
        BroughtUp(i) =>
            /\ ENABLED_FLAGS'[i] = ENABLED_FLAGS[i]
            /\ lego_poller'[i] = lego_poller[i]
            /\ rxneie'[i] = rxneie[i]
            /\ nvic_unmasked'[i] = nvic_unmasked[i]
            /\ hs_calls'[i] = hs_calls[i]
            /\ hs_result'[i] = hs_result[i]

\* C17: a channel is Online (ENABLED flag true, receive interrupt enabled,
\* poller present) if and only if its handshake returned true; a channel whose
\* handshake returned false is Offline, its handshake is not made again and
\* its status never changes afterwards.
C17_OnlineIffHandshake ==
    /\ []StatusIsHandshakeResult
    /\ [][StatusIsFinal]_vars

\* in the main loop, one channel Offline and two Online, after a poll that
\* left the Offline channel out
C17_Witness ==
    /\ bpc = "loop"
    /\ Offline(1) /\ hs_result[1] = "false"
    /\ Online(0) /\ Online(2)
    /\ last_polled = {0, 2}

\* the step is a TIM3 interrupt that writes POLL
PollWritten == since_poll' < since_poll

\* C22: a TIM3 interrupt that polls writes POLL to exactly the channels that
\* are Online at that time, to none that is Offline or whose pass of the
\* bring-up (with its handshake) is not over, and it is the 181st TIM3
\* interrupt after the previous one that polled (after startup for the first):
\* the count is the same every time.
C22_PollOnlineOnly ==
    /\ [][ PollWritten =>
              /\ last_polled' = {i \in Channels : Online(i)}
              /\ \A i \in Channels :
                    (Offline(i) \/ ~BroughtUp(i)) => i \notin last_polled'
              /\ poll_gap' = POLL_PERIOD + 1 ]_vars
    /\ [](poll_gap \in {0, POLL_PERIOD + 1})
    /\ [](since_poll <= POLL_PERIOD /\ since_poll = POLL_COUNTER)

\* a poll of channel 0 alone, made when the handshake of channel 1 had
\* returned true and ENABLED[1] was not stored yet
C22_Witness ==
    /\ poll_gap = POLL_PERIOD + 1
    /\ since_poll = 0
    /\ last_polled = {0}
    /\ bpc = "store" /\ bi = 1
    /\ lego_poller[1]
    /\ ~ENABLED_FLAGS[1]

\* a buffer that fewer than ten write_byte calls were made on has returned
\* nothing but Ok(None); an invariant of Spec
FewWritesNoSample ==
    nwrites < FRAME_LEN => result \in {RPending, RNone}

\* nothing of channel i is in the report buffer
NotSurfaced(i) ==
    /\ i \notin fresh
    /\ \A j \in i * 8 .. i * 8 + 7 : usb_tx_buf[j] = 0

\* C21: in each pass of the loop try_read_sample has been called for every
\* channel that is Online (for all three channels) when the pass comes to the
\* host, and the report buffer never holds a validity byte or a Sample byte
\* for a channel that is not Online.
C21_OnlineChannelsRead ==
    /\ lpc = "usb" => ({i \in Channels : Online(i)} \subseteq tried /\ tried = Channels)
    /\ \A i \in Channels : ~Online(i) => NotSurfaced(i)
    /\ \A i \in Channels : Offline(i) => rx_writes[i] = 0

\* a pass that surfaced a Sample of channel 0 while channel 1 is Offline
C21_Witness ==
    /\ lpc = "usb"
    /\ bpc = "loop"
    /\ Online(0) /\ Offline(1)
    /\ 0 \in fresh
    /\ usb_tx_buf[0] = 1 /\ usb_tx_buf[1] = 255
    /\ NotSurfaced(1)
    /\ tried = Channels

----------------------------------------------------------------------------
(* Properties of the motor driver *)

\* the register write about to run belongs to HalfBridge::pwm
DrivingToPwm == ops # << >> /\ Head(ops).fn = "pwm"

\* C3: in every state, also between the register writes of one call, the two
\* legs of a channel never both have their high FET on the PWM signal.
C3_NeverBothPwm ==
    \A c \in Channels : ~(InPwm(legs[c][0]) /\ InPwm(legs[c][1]))

\* inside a set call that reverses the direction: the gaining leg is about to
\* be connected to PWM and the other leg carried a duty before
C3_Witness ==
    /\ DrivingToPwm
    /\ Head(ops).op = "af"
    /\ legs[Head(ops).ch][1 - Head(ops).leg].ccr > 0

\* C4: while a set call with a non-zero command drives a leg to Pwm (at each
\* register write of HalfBridge::pwm), the other leg of the channel is already
\* Ground.
C4_GroundBeforePwm ==
    DrivingToPwm => IsGround(legs[Head(ops).ch][1 - Head(ops).leg])

\* the first write of the gaining leg, which was Off or Ground, after the
\* losing leg was taken from Pwm to Ground
C4_Witness ==
    /\ DrivingToPwm
    /\ Head(ops).op = "gnd"
    /\ legs[Head(ops).ch][1 - Head(ops).leg].ccr = 32767
    /\ IsGround(legs[Head(ops).ch][1 - Head(ops).leg])

\* C5: when set(channel, c) has returned: c = 0 leaves both legs Ground,
\* c = +X (X in 1..32767) leaves leg A Pwm(X) and leg B Ground, c = -X leaves
\* leg B Pwm(X) and leg A Ground.
C5_SetResult ==
    returned.call = "FullBridge.pwm" =>
        LET c == returned.ch
            v == returned.arg
        IN  /\ v = 0 => IsGround(legs[c][0]) /\ IsGround(legs[c][1])
            /\ v \in 1 .. 32767 => IsPwm(legs[c][0], v) /\ IsGround(legs[c][1])
            /\ v \in -32767 .. -1 => IsPwm(legs[c][1], -v) /\ IsGround(legs[c][0])

C5_Witness ==
    /\ returned.call = "FullBridge.pwm"
    /\ returned.arg = -32767
    /\ legs[returned.ch][0].ccr > 0

\* C24: the program never stops in the driver, and when set(channel, c) has
\* returned for a command c in -32768 .. -1, leg A is Ground and leg B is Pwm
\* with duty -c.
C24_NegativeFullRange ==
    /\ ~halted
    /\ (returned.call = "FullBridge.pwm" /\ returned.arg \in I16_MIN .. -1) =>
          /\ IsGround(legs[returned.ch][0])
          /\ IsPwm(legs[returned.ch][1], -returned.arg)

\* the same in a build that does not check arithmetic overflow, where
\* abs(-32768) wraps to -32768 and the duty written is 32768
C24_NegativeFullRangeUnchecked ==
    overflow_checks \/ C24_NegativeFullRange

\* C6: when Motors::off_ground or Motors::new has returned, both legs of all
\* three channels are Ground.
C6_FailSafeAllGround ==
    returned.call \in {"Motors.off_ground", "Motors.new"} =>
        \A c \in Channels : \A l \in Legs : IsGround(legs[c][l])

\* fail-safe after the motors were driven
C6_Witness ==
    /\ returned.call = "Motors.off_ground"
    /\ enable
    /\ \A c \in Channels : \E l \in Legs : legs[c][l].ccr > 0

\* C33: in every state, also between the two or three register writes of
\* HalfBridge::off, ground and pwm, no leg has its low FET on while its high
\* FET is on the PWM signal; the low FET is turned on only when the high FET
\* is disconnected, and the high FET is connected only when the low FET is
\* off.
C33_NoShootThroughInLeg ==
    /\ [](\A c \in Channels : \A l \in Legs : ~(legs[c][l].gnd /\ legs[c][l].af))
    /\ [][\A c \in Channels : \A l \in Legs :
            /\ (legs'[c][l].gnd /\ ~legs[c][l].gnd) => (~legs[c][l].af /\ ~legs'[c][l].af)
            /\ (legs'[c][l].af /\ ~legs[c][l].af) => (~legs[c][l].gnd /\ ~legs'[c][l].gnd)]_vars

\* between the two writes of HalfBridge::ground on a leg that was driven: the
\* high FET is disconnected, the low FET not yet on
C33_Witness ==
    /\ ops # << >>
    /\ Head(ops).fn = "ground"
    /\ Head(ops).op = "gnd"
    /\ legs[Head(ops).ch][Head(ops).leg].ccr > 0
    /\ IsOff(legs[Head(ops).ch][Head(ops).leg])
    /\ returned.call = "none"

----------------------------------------------------------------------------
(* Properties of the command watchdog *)

\* Motors::new followed by enable(true) ends in the state the control loop is
\* entered with (MotorsStarted); an invariant of SpecMotors.
StartupEndsStarted ==
    returned.call = "Motors.enable" =>
        /\ legs = [c \in Channels |-> [l \in Legs |-> [gnd |-> TRUE, af |-> FALSE, ccr |-> 0]]]
        /\ enable

\* every leg of every channel is Ground
AllGround == \A c \in Channels : \A l \in Legs : IsGround(legs[c][l])

\* Motors::new is running: its first write is still to come, or the last
\* register write or return was made by it or by a call it makes
InMotorsNew ==
    /\ ops # << >>
    /\ \E k \in 1 .. Len(ops) : ops[k] = Ret("Motors.new", 0, 0)

\* C34: the enable line of the gate drivers is low while Motors::new runs;
\* it changes once, from low to high, in the step of motors.enable(true) that
\* follows the return of Motors::new, and every leg of every channel is Ground
\* at that step.
C34_EnabledAfterGround ==
    /\ [](InMotorsNew => ~enable)
    /\ [][enable' # enable =>
            /\ enable'
            /\ AllGround /\ AllGround'
            /\ returned.call = "Motors.new"
            /\ Head(ops).fn = "Motors.enable"]_vars
    /\ [](enable => ~InMotorsNew)

\* the gate drivers just enabled, every leg Ground
C34_Witness ==
    /\ enable
    /\ returned.call = "Motors.enable"
    /\ AllGround
    /\ ops = << >>

\* In each loop pass, after the timeout check and its motor writes: fail-safe
\* (Motors::off_ground) has just run if and only if the counter is at or over
\* the threshold.
C7_ForcedEveryPass ==
    (lpc = "usb" /\ ops = << >>) =>
        /\ GeSmall(watchdog_motor_cmd, MOTOR_CMD_TIMEOUT)
              <=> (returned.call = "Motors.off_ground" /\ AllGround)
        /\ motor_timed_out <=> GeSmall(watchdog_motor_cmd, MOTOR_CMD_TIMEOUT)

\* The counter is the number of ticks counted since the last accepted command
\* (0 right after it) while that is below the threshold, and stays at or over
\* the threshold from the 128th tick on: it never falls back without a command.
C7_PersistsUntilCommand ==
    IF silent < MOTOR_CMD_TIMEOUT
    THEN watchdog_motor_cmd = U32(0, silent)
    ELSE GeSmall(watchdog_motor_cmd, MOTOR_CMD_TIMEOUT)

\* When the program has come to rest after accepting a command, the command
\* has reset the counter to 0.
C7_AcceptResets ==
    (halted /\ lpc = "set") => watchdog_motor_cmd = U32(0, 0)

\* C7: once the command-timeout counter has reached the threshold, fail-safe
\* is forced in every pass and the timed-out condition stays true (the counter
\* saturates) until a command is accepted; accepting a command resets the
\* counter to 0 and fail-safe is not forced again below the threshold.
C7_Watchdog ==
    /\ C7_ForcedEveryPass
    /\ C7_PersistsUntilCommand
    /\ C7_AcceptResets

\* the same without its last part
C7_WatchdogWhileRunning ==
    /\ C7_ForcedEveryPass
    /\ C7_PersistsUntilCommand

\* C32: until the first host command is accepted the command-timeout counter
\* is at or over the threshold; every pass of the loop made before it finds
\* the timed-out condition true and runs Motors::off_ground, and all legs of
\* all channels are Ground the whole time.
C32_TimedOutFromStartup ==
    /\ [](~commanded => TimedOut(watchdog_motor_cmd))
    /\ [](~commanded => AllGround)
    /\ [][(~commanded /\ lpc = "check" /\ lpc' # "check") =>
            (motor_timed_out' /\ ops' = Motors_off_ground)]_vars
    /\ []((~commanded /\ lpc \in {"read", "usb"}) => motor_timed_out)
    /\ []((~commanded /\ lpc = "usb" /\ ops = << >>) =>
            (returned.call = "Motors.off_ground" /\ AllGround))

\* the second pass after startup, a timer tick counted and a message of seven
\* bytes ignored, with fail-safe forced again
C32_Witness ==
    /\ ~commanded
    /\ lpc = "usb"
    /\ ops = << >>
    /\ returned.call = "Motors.off_ground"
    /\ watchdog_motor_cmd = U32(0, MOTOR_CMD_TIMEOUT + 1)
    /\ usb_polled
    /\ usb_read = 7
    /\ AllGround

----------------------------------------------------------------------------
(* Properties of the host commands and reports *)

\* the signed 16-bit value whose big-endian form is the bytes hi, lo
SignedBe16(hi, lo) ==
    IF hi * 256 + lo > 32767 THEN hi * 256 + lo - 65536 ELSE hi * 256 + lo

\* set(0, v0), set(1, v1), set(2, v2) for the three values of the message held
\* in usb_rx_buf, in this order and nothing else
SetOncePerChannel ==
    set_calls = << <<0, SignedBe16(usb_rx_buf[0], usb_rx_buf[1])>>,
                   <<1, SignedBe16(usb_rx_buf[2], usb_rx_buf[3])>>,
                   <<2, SignedBe16(usb_rx_buf[4], usb_rx_buf[5])>> >>

\* the message in usb_rx_buf holds the value -32768 for some channel
HoldsI16Min == \E j \in {0, 2, 4} : usb_rx_buf[j] = 128 /\ usb_rx_buf[j + 1] = 0

\* C35: whatever the three handshakes return, main comes to its loop; in the
\* loop fail-safe is forced in each pass exactly while the counter is at or
\* over the threshold, a command of 6 bytes is applied to all three channels
\* and resets the counter, whether the channels are Online or not; the
\* program stops only on the overflow of a command value of -32768 (C24),
\* never on the result of a handshake.
C35_FailedHandshakeNotFatal ==
    /\ <>(bpc = "loop")
    /\ [](bpc \in {"power", "new", "store", "loop"})
    /\ [](C7_ForcedEveryPass)
    /\ []((lpc = "set" /\ ops = << >> /\ ~halted) => SetOncePerChannel)
    /\ [](lpc \in {"write", "clear"} =>
            (SetOncePerChannel /\ watchdog_motor_cmd = U32(0, 0)))
    /\ [](halted => (overflow_checks /\ HoldsI16Min /\ lpc = "set"))

\* the motor of a channel whose handshake failed, driven by a command, the
\* other two channels Online
C35_Witness ==
    /\ bpc = "loop"
    /\ hs_result = [i \in Channels |-> IF i = 0 THEN "false" ELSE "true"]
    /\ ~ENABLED_FLAGS[0]
    /\ lpc = "clear"
    /\ IsPwm(legs[0][0], 1)
    /\ IsGround(legs[0][1])
    /\ watchdog_motor_cmd = U32(0, 0)
    /\ Len(report) = TX_LEN

\* C36: the handler of the USART of link i writes buffer i; a Sample is read,
\* and a report slot filled, only for a channel whose own handshake returned
\* true; a telemetry read of channel i changes bytes 8i..8i+7 of usb_tx_buf
\* only; a pass of the bring-up changes the poller, the interrupt enables and
\* the ENABLED flag of its own index only, and the channels polled are those
\* whose own handshake returned true; a write to a leg changes that leg only.
C36_IndicesConsistent ==
    /\ [](\A i \in Channels : UsartSource[UART[i]] = i)
    /\ [](\A i \in Channels :
            (i \in fresh \/ usb_tx_buf[8 * i] = 1 \/ usb_tx_buf[8 * i + 1] # 0
               \/ last_sample[i] # NoSample)
                => (hs_result[i] = "true" /\ ENABLED_FLAGS[i]))
    /\ [][lpc = "read" =>
            \A j \in 0 .. TX_LEN - 1 :
                usb_tx_buf'[j] # usb_tx_buf[j] => j \in 8 * ri .. 8 * ri + 7]_vars
    /\ [][\A i \in Channels :
            (\/ hs_result'[i] # hs_result[i]
             \/ lego_poller'[i] # lego_poller[i]
             \/ rxneie'[i] # rxneie[i]
             \/ nvic_unmasked'[i] # nvic_unmasked[i]
             \/ ENABLED_FLAGS'[i] # ENABLED_FLAGS[i]
             \/ enable_lego'[i] # enable_lego[i]) => i = bi]_vars
    /\ [](\A i \in Channels :
            i \in PollTargets <=> (bi > i /\ hs_result[i] = "true"))
    /\ [][\A c \in Channels : \A l \in Legs :
            legs'[c][l] # legs[c][l] =>
                (ops # << >> /\ Head(ops).ch = c /\ Head(ops).leg = l)]_vars

\* only channel 1 Online: its Sample in slot 1 of the report under way, slots
\* 0 and 2 empty, while a command drives the motors of channels 0 and 1
C36_Witness ==
    /\ hs_result = [i \in Channels |-> IF i = 1 THEN "true" ELSE "false"]
    /\ lpc = "write"
    /\ fresh = {1}
    /\ usb_tx_buf[8] = 1 /\ usb_tx_buf[9] = 255
    /\ \A j \in (0 .. 7) \cup (16 .. 23) : usb_tx_buf[j] = 0
    /\ IsPwm(legs[0][0], 1)
    /\ IsPwm(legs[1][1], 1)
    /\ IsGround(legs[2][0]) /\ IsGround(legs[2][1])

C18_CommandApplied ==
    /\ (lpc = "set" /\ ops = << >>) => (SetOncePerChannel /\ ~halted)
    /\ lpc \in {"write", "clear"} =>
          (SetOncePerChannel /\ watchdog_motor_cmd = U32(0, 0))

\* the same in a build that does not check arithmetic overflow
C18_CommandAppliedUnchecked ==
    overflow_checks \/ C18_CommandApplied

\* a command with -32768 applied in a build without overflow checks
C18_WitnessUnchecked ==
    /\ lpc = "write"
    /\ ~overflow_checks
    /\ SetOncePerChannel
    /\ set_calls[3] = <<2, I16_MIN>>

\* C23: whenever the program is in the transmit loop of the report that
\* follows a command, it later comes to the watchdog check of a next pass.
C23_ReportTerminates ==
    (lpc = "write") ~> (lpc = "check")

\* the same when usb_serial.write does not refuse for ever
C23_TerminatesIfTaken ==
    ([]<>~(lpc = "write" /\ write_blocked)) => C23_ReportTerminates

\* C38: every pass of the loop that accepts a command hands one report of 24
\* bytes to the host.
C38_ReportPerCommand ==
    pass_cmd ~> (pass_reports = 1)

\* the same when the program does not stop on the overflow of C24 and
\* usb_serial.write does not refuse for ever (C23)
C38_ReportIfTaken ==
    ([]~halted /\ []<>~(lpc = "write" /\ write_blocked)) => C38_ReportPerCommand

\* At most one report in a pass, of 24 bytes, only in a pass that accepted a
\* command, after set_raw_pwm has set the three channels and the counter was
\* reset; not a byte goes to the host in a pass that accepted no command.
C38_ReportOnlyAfterCommand ==
    /\ [](pass_reports <= 1)
    /\ [](pass_reports = 1 =>
            (pass_cmd /\ SetOncePerChannel /\ Len(report) = TX_LEN /\ lpc \in {"clear", "tick"}))
    /\ [](lpc \in {"write", "clear"} =>
            (pass_cmd /\ SetOncePerChannel /\ watchdog_motor_cmd = U32(0, 0)))
    /\ [][(sent' # sent /\ sent' # << >>) => (pass_cmd /\ lpc = "write")]_vars
    /\ [][report' # report => (pass_cmd /\ pass_reports = 0 /\ pass_reports' = 1)]_vars
    /\ [](~pass_cmd => pass_reports = 0)

\* C19: a pass in which usb_dev.poll is false, usb_serial.read fails or
\* returns a length other than 6 goes back to the top of the loop without a
\* write to the motor driver and without a change of the command-timeout
\* counter; set_raw_pwm and the reset of the counter run only in a pass that
\* read a message of exactly 6 bytes.
C19_OtherLengthIgnored ==
    /\ [][ (lpc = "usb" /\ lpc' # "usb" /\ ~(usb_polled' /\ usb_read' = 6)) =>
              /\ lpc' = "tick"
              /\ legs' = legs
              /\ enable' = enable
              /\ ops' = << >>
              /\ watchdog_motor_cmd' = watchdog_motor_cmd ]_vars
    /\ [](lpc \in {"set", "write", "clear"} => (usb_polled /\ usb_read = 6))

\* a message of 7 bytes ignored while a motor is driven and the counter runs
C19_Witness ==
    /\ lpc = "tick"
    /\ usb_polled
    /\ usb_read = 7
    /\ \E c \in Channels : InPwm(legs[c][0])
    /\ watchdog_motor_cmd = U32(0, 1)
    /\ usb_rx_buf # [j \in 0 .. 5 |-> 0]

\* C20: the validity byte of channel i in usb_tx_buf is 1 exactly when
\* try_read_sample returned a Sample for channel i since the validity bytes
\* were last cleared (since startup before the first report); a report is the
\* 24 bytes of usb_tx_buf, so its validity byte i is 1 exactly for the
\* channels that returned a Sample since the previous report; after the
\* report the validity bytes are 0.
C20_ValidityIsFreshness ==
    /\ \A i \in Channels : usb_tx_buf[i * 8] = IF i \in fresh THEN 1 ELSE 0
    /\ lpc = "clear" =>
          /\ Len(report) = TX_LEN
          /\ \A j \in 0 .. TX_LEN - 1 : report[j + 1] = usb_tx_buf[j]
          /\ \A i \in Channels : report[i * 8 + 1] = IF i \in fresh THEN 1 ELSE 0
    /\ (lpc = "tick" /\ report # << >> /\ ri = 0 /\ fresh = {}) =>
          \A i \in Channels : usb_tx_buf[i * 8] = 0

\* a second report, sent in pieces, with a Sample for channel 1 only, after a
\* first report that carried a Sample for channel 0
C20_Witness ==
    /\ lpc = "clear"
    /\ fresh = {1}
    /\ report[1] = 0 /\ report[9] = 1 /\ report[17] = 0
    /\ report[2] = 255
    /\ write_blocked = FALSE
    /\ Len(sent) = TX_LEN

====
